---- MODULE Spec2Model ----
(***************************************************************************)
(* A model of the streaming LTL engine of ilhamster/ltl: bound values and  *)
(* Bindings (pkg/bindings), Captures (pkg/captures), the Environments      *)
(* (pkg/ltl State and errEnv, pkg/bindingenvironment BindingNode and       *)
(* binaryNode), the terminal matchers (examples/stringmatcher,             *)
(* examples/signals, pkg/binder) and the operators of pkg/operators.       *)
(*                                                                         *)
(* Go values are modelled as records tagged by a field k that names the    *)
(* Go type.  A nil pointer or nil interface is the record Nil.  Every Go   *)
(* function is an operator that computes what the function computes.       *)
(***************************************************************************)
EXTENDS Integers, Sequences, FiniteSets, TLC

VARIABLES root, op, env, hist, trace

vars == <<root, op, env, hist, trace>>

(***************************************************************************)
(* Bounds of the model.                                                    *)
(***************************************************************************)
\* the longest token stream that is fed to an expression
MaxLen == 3

(***************************************************************************)
(* Forward declarations: the Environment and Operator methods call each    *)
(* other through the interfaces.                                           *)
(***************************************************************************)
RECURSIVE CombineLoop(_, _, _, _, _)
RECURSIVE SatisfyLoop(_, _, _, _, _)
RECURSIVE EnvAnd(_, _)
RECURSIVE EnvOr(_, _)
RECURSIVE EnvNot(_)
RECURSIVE and(_, _)
RECURSIVE or(_, _)
RECURSIVE applyBindings(_, _)
RECURSIVE merge(_, _)
RECURSIVE OpMatch(_, _)
RECURSIVE OpReducible(_)
RECURSIVE RunOf(_, _, _)

\* a nil pointer, a nil interface value, a nil map
Nil == [k |-> "nil"]

(***************************************************************************)
(* pkg/bindings: BoundValue and Bindings.  A Bindings is the slice b.b, a  *)
(* sequence of bound values; a nil *Bindings is the empty sequence (every  *)
(* method of Bindings reads it through bindings(), which maps nil to an    *)
(* empty slice).  Keys are names; strings.Compare on keys is KeyCompare.   *)
(***************************************************************************)
\* the names that can be bound, in increasing string order
Names == <<"a", "b", "c">>

KeyIndex(key) == CHOOSE i \in 1..Len(Names) : Names[i] = key

\* strings.Compare on two keys
KeyCompare(x, y) ==
    IF KeyIndex(x) < KeyIndex(y) THEN -1
    ELSE IF KeyIndex(x) > KeyIndex(y) THEN 1 ELSE 0

\* bindings.String(key, value)
String(key, value) == [key |-> key, type |-> "string", value |-> value]

\* bindings.Int(key, value), which returns a BoundInt
BoundInt(key, value) == [key |-> key, type |-> "int", value |-> value]

\* CompareValues: an error when the value types differ, else whether the
\* values compare equal (cmp = 0) or not (cmp = 1 stands for any nonzero).
CompareValues(bv, obv) ==
    IF bv.type /= obv.type THEN [cmp |-> 0, err |-> TRUE]
    ELSE [cmp |-> IF bv.value = obv.value THEN 0 ELSE 1, err |-> FALSE]

\* (*Bindings).Length
Length(b) == Len(b)

\* (*Bindings).Eq
Eq(b, ob) ==
    IF Length(b) /= Length(ob) THEN FALSE
    ELSE \A idx \in 1..Length(b) :
            /\ b[idx].key = ob[idx].key
            /\ LET c == CompareValues(b[idx], ob[idx])
               IN  c.cmp = 0 /\ ~c.err

\* the merge loop of Combine, from indices bIdx and obIdx with ret built so far
CombineLoop(b, ob, bIdx, obIdx, ret) ==
    IF bIdx <= Length(b) /\ obIdx <= Length(ob)
    THEN LET bBV == b[bIdx]
             oBV == ob[obIdx]
             cmp == KeyCompare(bBV.key, oBV.key)
         IN  IF cmp < 0 THEN CombineLoop(b, ob, bIdx + 1, obIdx, Append(ret, bBV))
             ELSE IF cmp > 0 THEN CombineLoop(b, ob, bIdx, obIdx + 1, Append(ret, oBV))
             ELSE LET c == CompareValues(bBV, oBV)
                  IN  IF c.err \/ c.cmp /= 0
                      THEN [b |-> <<>>, err |-> TRUE]
                      ELSE CombineLoop(b, ob, bIdx + 1, obIdx + 1, Append(ret, bBV))
    ELSE [b |-> ret \o SubSeq(b, bIdx, Length(b)) \o SubSeq(ob, obIdx, Length(ob)),
          err |-> FALSE]

\* a Combine that lets the receiver win on a conflicting key
CombineNoConflict(b, ob) ==
    [b |-> b \o SelectSeq(ob, LAMBDA bv : \A i \in 1..Len(b) : b[i].key /= bv.key),
     err |-> FALSE]

\* (*Bindings).Combine: the keywise union, or an error
Combine(b, ob) ==
    IF Length(b) = 0 \/ Eq(b, ob) THEN [b |-> ob, err |-> FALSE]
    ELSE IF Length(ob) = 0 THEN [b |-> b, err |-> FALSE]
    ELSE CombineLoop(b, ob, 1, 1, <<>>)

\* (*Bindings).Keys
Keys(b) == { b[i].key : i \in 1..Length(b) }

\* newSorted: a Bindings of the slice given, nil if the slice is empty
newSorted(bvs) == bvs

\* the less function of New has seen two arguments with the same key, as a
\* sort must when two of the arguments share one
KeyConflict(bvs) ==
    \E i, j \in 1..Len(bvs) : i /= j /\ bvs[i].key = bvs[j].key

\* the orders sort.Slice may leave the arguments in: each sorted by key; the
\* sort is not stable
SortSlice(bvs) ==
    { s \in { [i \in 1..Len(bvs) |-> bvs[p[i]]] : p \in Permutations(1..Len(bvs)) } :
        \A i \in 1..(Len(s) - 1) : KeyCompare(s[i].key, s[i + 1].key) <= 0 }

\* a New that does not sort its arguments
NewUnsorted(bvs) == { [b |-> newSorted(bvs), err |-> KeyConflict(bvs)] }

\* bindings.New: the outcomes it may have, the Bindings and the error
New(bvs) == { [b |-> newSorted(s), err |-> KeyConflict(bvs)] : s \in SortSlice(bvs) }

\* the loop of Satisfy
SatisfyLoop(b, ob, bIdx, obIdx, ret) ==
    IF bIdx <= Length(b) /\ obIdx <= Length(ob)
    THEN LET bBV == b[bIdx]
             oBV == ob[obIdx]
             cmp == KeyCompare(bBV.key, oBV.key)
         IN  IF cmp < 0 THEN SatisfyLoop(b, ob, bIdx + 1, obIdx, Append(ret, bBV))
             ELSE IF cmp > 0 THEN SatisfyLoop(b, ob, bIdx, obIdx + 1, ret)
             ELSE LET c == CompareValues(bBV, oBV)
                  IN  IF c.err \/ c.cmp /= 0
                      THEN [b |-> <<>>, ok |-> FALSE]
                      ELSE SatisfyLoop(b, ob, bIdx + 1, obIdx + 1, ret)
    ELSE [b |-> ret \o SubSeq(b, bIdx, Length(b)), ok |-> TRUE]

\* a Satisfy that hands the receiver back whatever the argument binds
SatisfyKeepsAll(b, ob) == [b |-> b, ok |-> TRUE]

\* (*Bindings).Satisfy: the receiver less the keys the argument agrees on
Satisfy(b, ob) ==
    IF Length(b) = 0 \/ Length(ob) = 0 THEN [b |-> b, ok |-> TRUE]
    ELSE IF Eq(b, ob) THEN [b |-> <<>>, ok |-> TRUE]
    ELSE SatisfyLoop(b, ob, 1, 1, <<>>)

(***************************************************************************)
(* pkg/captures: Captures.  A nil *Captures is NoCaps; a non-nil one holds *)
(* the set captured when matching (t) and when not matching (f).  Tokens   *)
(* are captured by identity.                                               *)
(***************************************************************************)
NoCaps == [nil |-> TRUE, t |-> {}, f |-> {}]

\* captures.New followed by Capture(matching, toks...)
CapturesOf(matching, toks) ==
    IF matching THEN [nil |-> FALSE, t |-> toks, f |-> {}]
    ELSE [nil |-> FALSE, t |-> {}, f |-> toks]

\* captures.New
CapsNew == [nil |-> FALSE, t |-> {}, f |-> {}]

\* (*Captures).Capture, on a receiver that is not nil
Capture(c, matching, toks) ==
    IF matching THEN [c EXCEPT !.t = c.t \cup toks]
    ELSE [c EXCEPT !.f = c.f \cup toks]

\* (*Captures).Union
CapsUnion(c, oc) ==
    IF c.nil THEN oc
    ELSE IF oc.nil THEN c
    ELSE [nil |-> FALSE, t |-> c.t \cup oc.t, f |-> c.f \cup oc.f]

\* (*Captures).Not
CapsNot(c) ==
    IF c.nil THEN c ELSE [nil |-> FALSE, t |-> c.f, f |-> c.t]

\* (*Captures).Reducible
CapsReducible(c) == c.nil \/ (c.t = {} /\ c.f = {})

(***************************************************************************)
(* pkg/ltl: the Environments State and errEnv, and the helpers of util.go. *)
(***************************************************************************)
\* ltl.NotMatching
NotMatching == [k |-> "State", m |-> FALSE]

\* ltl.Matching, the matching State
MatchingState == [k |-> "State", m |-> TRUE]

\* ltl.ErrEnv(err)
ErrEnv(err) == [k |-> "errEnv", err |-> err]

\* (*BindingNode).hasReferences
bnHasReferences(bn) == Length(bn.referenced) > 0

\* (*BindingNode).Matching: never matching while references are pending
bnMatchingIgnoringReferences(bn) == bn.matching

bnMatching(bn) ==
    IF bnHasReferences(bn) THEN FALSE ELSE bn.matching

\* Environment.Matching(), by dynamic type
Matching(e) ==
    CASE e.k = "State" -> e.m
      [] e.k = "errEnv" -> FALSE
      [] e.k = "BindingNode" -> bnMatching(e)
      [] e.k = "binaryNode" -> e.matching

\* ltl.IsErroring: Environment.Err() is non-nil
IsErroring(e) == e.k = "errEnv"

\* Environment.Reducible(), by dynamic type
Reducible(e) ==
    CASE e.k = "State" -> TRUE
      [] e.k = "errEnv" -> TRUE
      [] e.k = "BindingNode" ->
            Length(e.bound) = 0 /\ Length(e.referenced) = 0 /\ CapsReducible(e.caps)
      [] e.k = "binaryNode" -> FALSE

\* ltl.EitherErroring: one of the erroring arguments, or nil
EitherErroring(a, b) ==
    IF IsErroring(a) THEN a ELSE IF IsErroring(b) THEN b ELSE Nil

\* ltl.Reduce: the other argument when one is Reducible with the given status
Reduce(left, right, matching) ==
    IF Reducible(left) /\ (matching = Matching(left)) THEN right
    ELSE IF Reducible(right) /\ (matching = Matching(right)) THEN left
    ELSE Nil

\* State.And
StateAnd(s, e) ==
    IF IsErroring(e) THEN e
    ELSE IF e.k /= "State" THEN EnvAnd(e, s)
    ELSE IF s.m THEN e
    ELSE NotMatching

\* State.Or
StateOr(s, e) ==
    IF EitherErroring(s, e) /= Nil THEN EitherErroring(s, e)
    ELSE IF e.k /= "State" THEN EnvOr(e, s)
    ELSE IF Matching(e) THEN e
    ELSE s

\* State.Not
StateNot(s) == IF s.m THEN NotMatching ELSE MatchingState

(***************************************************************************)
(* pkg/bindingenvironment: BindingNode and binaryNode.                     *)
(***************************************************************************)
\* bindingenvironment.New() with the fields then assigned
BindingNode(matching, caps, bound, referenced) ==
    [k |-> "BindingNode", matching |-> matching, caps |-> caps,
     bound |-> bound, referenced |-> referenced]

\* &binaryNode{...}
binaryNode(bound, left, right, hasRefs, matching, t) ==
    [k |-> "binaryNode", bound |-> bound, left |-> left, right |-> right,
     hasRefs |-> hasRefs, matching |-> matching, t |-> t]

\* whether the Environment implements bindingEnvironment
IsBindingEnvironment(e) == e.k \in {"BindingNode", "binaryNode"}

\* a Not that inverts the matching field and leaves the captures where they were
bnNotKeepsCaptures(bn) ==
    BindingNode(~bn.matching, bn.caps, bn.bound, bn.referenced)

\* (*BindingNode).Not
bnNot(bn) ==
    BindingNode(~bn.matching, CapsNot(bn.caps), bn.bound, bn.referenced)

\* (*BindingNode).bindings: only a matching node exports its bound values
bnBindings(bn) == IF bnMatching(bn) THEN bn.bound ELSE <<>>

\* bindingenvironment.Bindings
Bindings(e) ==
    CASE e.k = "BindingNode" -> bnBindings(e)
      [] e.k = "binaryNode" -> e.bound
      [] OTHER -> <<>>

\* bindingenvironment.hasReferences
hasReferences(e) ==
    CASE e.k = "BindingNode" -> bnHasReferences(e)
      [] e.k = "binaryNode" -> e.hasRefs
      [] OTHER -> FALSE

\* an applyBindings that drops the references whether or not the bindings
\* satisfy them, and leaves the matching field as it was
bnApplyBindingsDropsReferences(bn, b) ==
    IF Length(b) = 0 THEN bn
    ELSE LET c == Combine(bn.bound, b)
         IN  IF c.err THEN ErrEnv("conflict")
             ELSE BindingNode(bn.matching, bn.caps, c.b, <<>>)

\* (*BindingNode).applyBindings
bnApplyBindings(bn, b) ==
    IF Length(b) = 0 THEN bn
    ELSE LET c == Combine(bn.bound, b)
             newB == c.b
         IN  IF c.err THEN ErrEnv("conflict")
             ELSE IF ~bnHasReferences(bn)
             THEN IF Eq(bn.bound, newB) THEN bn
                  ELSE BindingNode(bn.matching, bn.caps, newB, <<>>)
             ELSE LET s == Satisfy(bn.referenced, newB)
                  IN  IF ~s.ok
                      THEN BindingNode(~bn.matching, CapsNot(bn.caps), newB, <<>>)
                      ELSE BindingNode(bn.matching, bn.caps, newB, s.b)

\* (*binaryNode).applyBindings
binApplyBindings(bn, b) ==
    IF bn.t = "orNode"
    THEN or(applyBindings(b, bn.left), applyBindings(b, bn.right))
    ELSE and(applyBindings(b, bn.left), applyBindings(b, bn.right))

\* bindingenvironment.applyBindings: Environments that do not bind pass through
applyBindings(b, e) ==
    CASE e.k = "BindingNode" -> bnApplyBindings(e, b)
      [] e.k = "binaryNode" -> binApplyBindings(e, b)
      [] OTHER -> e

\* (*BindingNode).merge
bnMerge(bn, oe) ==
    IF /\ oe.k = "BindingNode"
       /\ bn.matching = oe.matching
       /\ Eq(bn.bound, oe.bound)
       /\ Eq(bn.referenced, oe.referenced)
    THEN [env |-> BindingNode(bn.matching, CapsUnion(bn.caps, oe.caps),
                              bn.bound, bn.referenced),
          ok |-> TRUE]
    ELSE [env |-> Nil, ok |-> FALSE]

\* (*binaryNode).merge
binMerge(bn, obn) ==
    IF obn.k /= "binaryNode" THEN [env |-> Nil, ok |-> FALSE]
    ELSE IF \/ bn.t /= obn.t
            \/ bn.matching /= obn.matching
            \/ bn.hasRefs /= obn.hasRefs
            \/ ~Eq(bn.bound, obn.bound)
    THEN [env |-> Nil, ok |-> FALSE]
    ELSE LET l1 == merge(bn.left, obn.left)
             r1 == merge(bn.right, obn.right)
             l2 == merge(bn.left, obn.right)
             r2 == merge(bn.right, obn.left)
         IN  IF l1.ok /\ r1.ok
             THEN [env |-> binaryNode(bn.bound, l1.env, r1.env, bn.hasRefs,
                                      bn.matching, bn.t),
                   ok |-> TRUE]
             ELSE IF l2.ok /\ r2.ok
             THEN [env |-> binaryNode(bn.bound, l2.env, r2.env, bn.hasRefs,
                                      bn.matching, bn.t),
                   ok |-> TRUE]
             ELSE [env |-> Nil, ok |-> FALSE]

\* bindingenvironment.merge
merge(a, b) ==
    CASE a.k = "BindingNode" -> bnMerge(a, b)
      [] a.k = "binaryNode" -> binMerge(a, b)
      [] OTHER -> [env |-> Nil, ok |-> FALSE]

\* the tail of and() and or(): the node built from the children l and r, to
\* which the combined Bindings newB have been applied
joinNode(newB, l, r, t) ==
    LET mg == merge(l, r)
        hasRefs == hasReferences(l) \/ hasReferences(r)
        matching ==
           IF hasRefs THEN FALSE
           ELSE IF t = "andNode" THEN Matching(l) /\ Matching(r)
           ELSE Matching(l) \/ Matching(r)
    IN  IF mg.ok THEN mg.env
        ELSE binaryNode(newB, l, r, hasRefs, matching, t)

\* the body of and() and or() after the erroring and Reduce checks, for the
\* node type t
join(left, right, t) ==
    LET c == Combine(Bindings(left), Bindings(right))
    IN  IF c.err THEN ErrEnv("conflict")
        ELSE joinNode(c.b, applyBindings(c.b, left),
                      applyBindings(c.b, right), t)

\* an and that does not look for an erroring argument
andIgnoresErrors(left, right) ==
    IF Reduce(left, right, TRUE) /= Nil THEN Reduce(left, right, TRUE)
    ELSE join(left, right, "andNode")

\* bindingenvironment.and
and(left, right) ==
    IF EitherErroring(left, right) /= Nil THEN EitherErroring(left, right)
    ELSE IF Reduce(left, right, TRUE) /= Nil THEN Reduce(left, right, TRUE)
    ELSE join(left, right, "andNode")

\* bindingenvironment.or
or(left, right) ==
    IF EitherErroring(left, right) /= Nil THEN EitherErroring(left, right)
    ELSE IF Reduce(left, right, FALSE) /= Nil THEN Reduce(left, right, FALSE)
    ELSE join(left, right, "orNode")

\* (*binaryNode).Not, by De Morgan
binNot(bn) ==
    IF bn.t = "orNode" THEN and(EnvNot(bn.left), EnvNot(bn.right))
    ELSE or(EnvNot(bn.left), EnvNot(bn.right))

\* Environment.And(), by dynamic type of the receiver
EnvAnd(e, oe) ==
    CASE e.k = "State" -> StateAnd(e, oe)
      [] e.k = "errEnv" -> e
      [] OTHER -> and(e, oe)

\* Environment.Or(), by dynamic type of the receiver
EnvOr(e, oe) ==
    CASE e.k = "State" -> StateOr(e, oe)
      [] e.k = "errEnv" -> e
      [] OTHER -> or(e, oe)

\* Environment.Not(), by dynamic type
EnvNot(e) ==
    CASE e.k = "State" -> StateNot(e)
      [] e.k = "errEnv" -> e
      [] e.k = "BindingNode" -> bnNot(e)
      [] e.k = "binaryNode" -> binNot(e)

(***************************************************************************)
(* Tokens.  A RuneToken (examples/runetoken) holds a rune and the index    *)
(* that makes it unique; a SignalToken (examples/signals) maps signal      *)
(* names to booleans.  EOI() is false for both.                            *)
(***************************************************************************)
\* runetoken.New(r, index)
RuneToken(r, index) == [k |-> "RuneToken", r |-> r, index |-> index]

\* signals.NewToken: sig is a function from signal names to BOOLEAN
SignalToken(sig) == [k |-> "SignalToken", sig |-> sig]

\* Token.EOI()
EOI(tok) == FALSE

(***************************************************************************)
(* pkg/operators: the constructors.  An Operator is a record tagged with   *)
(* the Go type; Child, Left, Right are the fields of UnaryOperator and     *)
(* BinaryOperator.                                                         *)
(***************************************************************************)
\* a nil-safe Match that reports a match for a nil Operator
MatchNilMatches(o, tok) ==
    IF o /= Nil THEN OpMatch(o, tok) ELSE [op |-> Nil, env |-> MatchingState]

\* ltl.Match: the nil-safe op.Match(tok)
Match(o, tok) ==
    IF o /= Nil THEN OpMatch(o, tok) ELSE [op |-> Nil, env |-> NotMatching]

\* ltl.Reducible: nil Operators are Reducible
ReducibleOp(o) == IF o = Nil THEN TRUE ELSE OpReducible(o)

\* operators.Not
Not(child) == IF child = Nil THEN Nil ELSE [k |-> "not", Child |-> child]

\* operators.And
And(left, right) ==
    IF left = Nil THEN right
    ELSE IF right = Nil THEN left
    ELSE [k |-> "and", Left |-> left, Right |-> right]

\* operators.Or
Or(left, right) ==
    IF left = Nil THEN right
    ELSE IF right = Nil THEN left
    ELSE [k |-> "or", Left |-> left, Right |-> right]

\* operators.Limit
Limit(n, child) ==
    IF n = 0 \/ child = Nil THEN Nil ELSE [k |-> "limit", Child |-> child, n |-> n]

\* operators.Next
Next_(child) == IF child = Nil THEN Nil ELSE [k |-> "next", Child |-> child]

\* an AndEnvironment that drops a held environment that is merely not matching
AndEnvironmentDropsHeld(e, child) ==
    IF child = Nil THEN Nil
    ELSE IF Reducible(e) THEN child
    ELSE [k |-> "andEnvironment", Child |-> child, env |-> e]

\* operators.AndEnvironment
AndEnvironment(e, child) ==
    IF child = Nil THEN Nil
    ELSE IF Reducible(e) /\ Matching(e) THEN child
    ELSE [k |-> "andEnvironment", Child |-> child, env |-> e]

\* an OrEnvironment that forgets the held environment
OrEnvironmentForgets(e, child) == child

\* operators.OrEnvironment
OrEnvironment(e, child) ==
    IF child = Nil THEN Nil
    ELSE IF Reducible(e) /\ ~Matching(e) THEN child
    ELSE [k |-> "orEnvironment", Child |-> child, env |-> e]

\* operators.Then
Then(left, right) ==
    IF left = Nil \/ right = Nil THEN Nil
    ELSE [k |-> "then", Left |-> left, Right |-> right]

\* operators.Sequence
Sequence(children) == [k |-> "sequence", ChildSlice |-> children]

\* operators.Eventually
Eventually(child) ==
    IF child = Nil THEN Nil ELSE [k |-> "eventually", Child |-> child]

\* operators.Globally
Globally(child) == [k |-> "globally", Child |-> child]

\* operators.Until
Until(left, right) ==
    IF left = Nil THEN right
    ELSE IF right = Nil THEN Nil
    ELSE [k |-> "until", Left |-> left, Right |-> right]

\* operators.Release
Release(left, right) == [k |-> "release", Left |-> left, Right |-> right]

(***************************************************************************)
(* The terminal matchers.                                                  *)
(***************************************************************************)
\* stringmatcher.new: s is the sequence of runes still to match.  The model
\* uses lower-case runes only, on which strings.ToLower is the identity.
stringMatcher(s, capture) == [k |-> "stringMatcher", s |-> s, capture |-> capture]

\* signals.NewMatcher: sig maps the required signal names to their values
signalMatcher(sig) == [k |-> "signalMatcher", sig |-> sig]

\* (*Builder).Bind
Bind(name, capture) == [k |-> "binder", name |-> name, capture |-> capture]

\* (*Builder).Reference
Reference(name, capture) == [k |-> "referencer", name |-> name, capture |-> capture]

\* be.New(be.Matching(matching)) followed by be.Captured(tok) when capturing
NewMatchingCaptured(matching, capture, tok) ==
    BindingNode(matching,
                IF capture THEN CapturesOf(matching, {tok}) ELSE NoCaps,
                <<>>, <<>>)

\* (*stringMatcher).matchInternal
matchInternal(sm, rtok) ==
    IF Len(sm.s) = 0 \/ EOI(rtok)
    THEN [op |-> Nil, env |-> BindingNode(FALSE, NoCaps, <<>>, <<>>)]
    ELSE LET wild == sm.s[1] = "."
             pre == sm.s[1] = rtok.r
             rem == IF wild \/ pre THEN Tail(sm.s) ELSE <<>>
             matching == IF wild THEN TRUE
                         ELSE IF pre THEN Len(rem) = 0 ELSE FALSE
             e == NewMatchingCaptured(matching, sm.capture, rtok)
         IN  IF Len(rem) > 0
             THEN [op |-> stringMatcher(rem, sm.capture), env |-> e]
             ELSE [op |-> Nil, env |-> e]

\* (*stringMatcher).Match
stringMatcherMatch(sm, tok) ==
    IF tok.k /= "RuneToken"
    THEN [op |-> Nil, env |-> ErrEnv("expected *rt.RuneToken")]
    ELSE matchInternal(sm, tok)

\* signalMatcher.Match
signalMatcherMatch(sigm, t) ==
    IF t.k /= "SignalToken"
    THEN [op |-> Nil, env |-> ErrEnv("not a stok")]
    ELSE IF \E name \in DOMAIN sigm.sig :
               name \notin DOMAIN t.sig \/ t.sig[name] /= sigm.sig[name]
    THEN [op |-> Nil, env |-> NotMatching]
    ELSE [op |-> Nil, env |-> MatchingState]

\* the extraction function that stringmatcher.Generator hands to the Builder
extractToken(name, tok) ==
    IF tok.k /= "RuneToken"
    THEN [bs |-> <<>>, err |-> TRUE]
    ELSE [bs |-> <<String(name, tok.r)>>, err |-> FALSE]

\* (*binder).Match
binderMatch(b, tok) ==
    IF EOI(tok) THEN [op |-> Nil, env |-> BindingNode(FALSE, NoCaps, <<>>, <<>>)]
    ELSE LET x == extractToken(b.name, tok)
         IN  IF x.err
             THEN [op |-> Nil, env |-> ErrEnv("failed to make Bindings")]
             ELSE [op |-> Nil,
                   env |-> BindingNode(TRUE,
                              IF b.capture THEN CapturesOf(TRUE, {tok}) ELSE NoCaps,
                              x.bs, <<>>)]

\* (*referencer).Match
referencerMatch(r, tok) ==
    IF EOI(tok) THEN [op |-> Nil, env |-> NotMatching]
    ELSE LET x == extractToken(r.name, tok)
         IN  IF x.err
             THEN [op |-> Nil, env |-> ErrEnv("failed to make Bindings")]
             ELSE [op |-> Nil,
                   env |-> BindingNode(TRUE,
                              IF r.capture THEN CapturesOf(TRUE, {tok}) ELSE NoCaps,
                              <<>>, x.bs)]

(***************************************************************************)
(* pkg/operators: Reducible and Match of each operator.  A Match returns   *)
(* the pair (continuation, environment) as the record [op, env].           *)
(***************************************************************************)
\* UnaryOperator.Reducible
UnaryOperatorReducible(uo) == OpReducible(uo.Child)

\* a BinaryOperator.Reducible that needs both children to be reducible
BinaryOperatorReducibleBoth(bo) == OpReducible(bo.Left) /\ OpReducible(bo.Right)

\* BinaryOperator.Reducible
BinaryOperatorReducible(bo) == OpReducible(bo.Left) \/ OpReducible(bo.Right)

\* NaryOperator.Reducible
NaryOperatorReducible(no) ==
    \E i \in 1..Len(no.ChildSlice) : OpReducible(no.ChildSlice[i])

\* Operator.Reducible(), by dynamic type
OpReducible(o) ==
    CASE o.k \in {"stringMatcher", "signalMatcher"} -> TRUE
      [] o.k \in {"binder", "referencer"} -> FALSE
      [] o.k \in {"not", "limit", "next", "andEnvironment", "orEnvironment",
                  "eventually", "globally"} -> UnaryOperatorReducible(o)
      [] o.k \in {"and", "or", "then", "until", "release"} -> BinaryOperatorReducible(o)
      [] o.k = "sequence" -> NaryOperatorReducible(o)

\* BinaryOperator.MatchBoth
MatchBoth(bo, tok) ==
    LET l == Match(bo.Left, tok)
        r == Match(bo.Right, tok)
    IN  [newLeft |-> l.op, newRight |-> r.op, leftEnv |-> l.env, rightEnv |-> r.env]

\* a StopAtFirstMatch that never stops
StopAtFirstMatchNever(tok, o) == OpMatch(o, tok)

\* operators.StopAtFirstMatch
StopAtFirstMatch(tok, o) ==
    LET r == OpMatch(o, tok)
    IN  IF Matching(r.env) THEN [op |-> Nil, env |-> r.env] ELSE r

\* (*not).Match
notMatch(n, tok) ==
    LET r == Match(n.Child, tok)
    IN  [op |-> Not(r.op), env |-> EnvNot(r.env)]

\* an and.Match that forgets the environment of the child that terminated
andMatchForgets(a, tok) ==
    LET mb == MatchBoth(a, tok)
    IN  IF EitherErroring(mb.leftEnv, mb.rightEnv) /= Nil
        THEN [op |-> Nil, env |-> EitherErroring(mb.leftEnv, mb.rightEnv)]
        ELSE [op |-> And(mb.newLeft, mb.newRight),
              env |-> EnvAnd(mb.leftEnv, mb.rightEnv)]

\* (*and).Match
andMatch(a, tok) ==
    LET mb == MatchBoth(a, tok)
        newEnv == EnvAnd(mb.leftEnv, mb.rightEnv)
    IN  IF EitherErroring(mb.leftEnv, mb.rightEnv) /= Nil
        THEN [op |-> Nil, env |-> EitherErroring(mb.leftEnv, mb.rightEnv)]
        ELSE IF mb.newLeft = Nil
        THEN [op |-> AndEnvironment(mb.leftEnv, mb.newRight), env |-> newEnv]
        ELSE IF mb.newRight = Nil
        THEN [op |-> AndEnvironment(mb.rightEnv, mb.newLeft), env |-> newEnv]
        ELSE [op |-> And(mb.newLeft, mb.newRight), env |-> newEnv]

\* or.Match as it would be if the survivor were wrapped with the
\* Environment of the child that terminated
orMatchWraps(o, tok) ==
    LET mb == MatchBoth(o, tok)
    IN  IF EitherErroring(mb.leftEnv, mb.rightEnv) /= Nil
        THEN [op |-> Nil, env |-> EitherErroring(mb.leftEnv, mb.rightEnv)]
        ELSE IF mb.newLeft = Nil
        THEN [op |-> OrEnvironment(mb.leftEnv, mb.newRight),
              env |-> EnvOr(mb.leftEnv, mb.rightEnv)]
        ELSE IF mb.newRight = Nil
        THEN [op |-> OrEnvironment(mb.rightEnv, mb.newLeft),
              env |-> EnvOr(mb.leftEnv, mb.rightEnv)]
        ELSE [op |-> Or(mb.newLeft, mb.newRight),
              env |-> EnvOr(mb.leftEnv, mb.rightEnv)]

\* (*or).Match
orMatch(o, tok) ==
    LET mb == MatchBoth(o, tok)
    IN  IF EitherErroring(mb.leftEnv, mb.rightEnv) /= Nil
        THEN [op |-> Nil, env |-> EitherErroring(mb.leftEnv, mb.rightEnv)]
        ELSE [op |-> Or(mb.newLeft, mb.newRight),
              env |-> EnvOr(mb.leftEnv, mb.rightEnv)]

\* l.n - 1 in int64.  The counts of the model stay within MaxCount of zero,
\* far from the 2^63 steps it takes a count to wrap around.
Int64Dec(n) == n - 1

\* a limit.Match that hands its count on as it is
limitMatchKeepsCount(l, tok) ==
    IF l.n = 0 THEN [op |-> Nil, env |-> NotMatching]
    ELSE [op |-> Limit(l.n, OpMatch(l.Child, tok).op),
          env |-> OpMatch(l.Child, tok).env]

\* (*limit).Match
limitMatch(l, tok) ==
    IF l.n = 0 THEN [op |-> Nil, env |-> NotMatching]
    ELSE LET r == OpMatch(l.Child, tok)
         IN  [op |-> Limit(Int64Dec(l.n), r.op), env |-> r.env]

\* (*next).Match
nextMatch(n, tok) == [op |-> n.Child, env |-> NotMatching]

\* (*andEnvironment).Match
andEnvironmentMatch(ae, tok) ==
    IF ~Matching(ae.env) /\ ReducibleOp(ae.Child)
    THEN [op |-> Nil, env |-> ae.env]
    ELSE LET r == Match(ae.Child, tok)
         IN  [op |-> AndEnvironment(ae.env, r.op), env |-> EnvAnd(ae.env, r.env)]

\* (*orEnvironment).Match
orEnvironmentMatch(oe, tok) ==
    LET r == Match(oe.Child, tok)
    IN  [op |-> OrEnvironment(oe.env, r.op), env |-> EnvOr(r.env, oe.env)]

\* a then.Match that passes the final environment of its left child through
thenMatchEmitsLeftEnv(t, tok) ==
    LET r == Match(t.Left, tok)
    IN  IF r.op /= Nil THEN [op |-> Then(r.op, t.Right), env |-> r.env]
        ELSE [op |-> AndEnvironment(r.env, t.Right), env |-> r.env]

\* (*then).Match
thenMatch(t, tok) ==
    LET r == Match(t.Left, tok)
    IN  IF r.op /= Nil THEN [op |-> Then(r.op, t.Right), env |-> r.env]
        ELSE [op |-> AndEnvironment(r.env, t.Right), env |-> NotMatching]

\* (*sequence).Match
sequenceMatch(s, tok) ==
    IF Len(s.ChildSlice) = 1 THEN OpMatch(s.ChildSlice[1], tok)
    ELSE IF Len(s.ChildSlice) = 2
    THEN OpMatch(Then(s.ChildSlice[1], s.ChildSlice[2]), tok)
    ELSE OpMatch(Then(s.ChildSlice[1], Sequence(Tail(s.ChildSlice))), tok)

\* an eventually.Match that only tries its child on the first token
eventuallyMatchOnce(e, tok) == StopAtFirstMatch(tok, e.Child)

\* (*eventually).Match
eventuallyMatch(e, tok) == StopAtFirstMatch(tok, Or(e.Child, Next_(e)))

\* a globally.Match that goes on after its child failed
globallyMatchGoesOn(g, tok) ==
    LET r == OpMatch(g.Child, tok)
    IN  IF r.op = Nil THEN [op |-> Globally(g.Child), env |-> r.env]
        ELSE [op |-> Or(r.op, Then(r.op, g)), env |-> r.env]

\* (*globally).Match
globallyMatch(g, tok) ==
    LET r == OpMatch(g.Child, tok)
    IN  IF r.op = Nil
        THEN IF ~Matching(r.env) THEN [op |-> Nil, env |-> r.env]
             ELSE [op |-> Globally(g.Child), env |-> r.env]
        ELSE [op |-> Or(r.op, Then(r.op, g)), env |-> r.env]

\* an until.Match that does not require its left child to hold
untilMatchIgnoresLeft(u, tok) ==
    StopAtFirstMatch(tok, Or(u.Right, Next_(u)))

\* (*until).Match
untilMatch(u, tok) == StopAtFirstMatch(tok, Or(u.Right, Then(u.Left, u)))

\* a release.Match that takes its arguments in the other order
releaseMatchSwapped(r, tok) ==
    OpMatch(Not(Until(Not(r.Right), Not(r.Left))), tok)

\* (*release).Match
releaseMatch(r, tok) == OpMatch(Not(Until(Not(r.Left), Not(r.Right))), tok)

\* Operator.Match(), by dynamic type of the receiver; the receiver is not nil
OpMatch(o, tok) ==
    CASE o.k = "stringMatcher" -> stringMatcherMatch(o, tok)
      [] o.k = "signalMatcher" -> signalMatcherMatch(o, tok)
      [] o.k = "binder" -> binderMatch(o, tok)
      [] o.k = "referencer" -> referencerMatch(o, tok)
      [] o.k = "not" -> notMatch(o, tok)
      [] o.k = "and" -> andMatch(o, tok)
      [] o.k = "or" -> orMatch(o, tok)
      [] o.k = "limit" -> limitMatch(o, tok)
      [] o.k = "next" -> nextMatch(o, tok)
      [] o.k = "andEnvironment" -> andEnvironmentMatch(o, tok)
      [] o.k = "orEnvironment" -> orEnvironmentMatch(o, tok)
      [] o.k = "then" -> thenMatch(o, tok)
      [] o.k = "sequence" -> sequenceMatch(o, tok)
      [] o.k = "eventually" -> eventuallyMatch(o, tok)
      [] o.k = "globally" -> globallyMatch(o, tok)
      [] o.k = "until" -> untilMatch(o, tok)
      [] o.k = "release" -> releaseMatch(o, tok)

(***************************************************************************)
(* The matcher as a state machine.  root is the expression, op its current *)
(* continuation, env the Environment of the last Match (Nil before the     *)
(* first), hist the tokens consumed and trace the result of every Match.   *)
(* A caller feeds tokens until the continuation is nil (docs/ltl.md,       *)
(* consumeChan).                                                           *)
(***************************************************************************)
\* the runes of the input streams
Runes == {"1", "2"}

\* the tokens that can follow the stream consumed so far: the test drivers
\* number the tokens of a stream from 0
RuneTokens == {RuneToken(r, Len(hist)) : r \in Runes}

InitWith(roots) ==
    /\ root \in roots
    /\ op = root
    /\ env = Nil
    /\ hist = <<>>
    /\ trace = <<>>

\* exp, env = exp.Match(tok)
Step(tok) ==
    /\ op /= Nil
    /\ Len(hist) < MaxLen
    /\ LET r == OpMatch(op, tok)
       IN  /\ op' = r.op
           /\ env' = r.env
           /\ hist' = Append(hist, tok)
           /\ trace' = Append(trace, r)
    /\ UNCHANGED root

\* feed a rune token
StepRune == \E tok \in RuneTokens : Step(tok)

\* the signal names of the signal streams
SignalNames == {"p", "q"}

\* signal tokens: every valuation of the signals, and one token that lacks
\* the signal q
SignalTokens ==
    { SignalToken(sig) : sig \in [SignalNames -> BOOLEAN] }
    \cup { SignalToken([n \in {"p"} |-> TRUE]) }

\* feed a signal token
StepSignal == \E tok \in SignalTokens : Step(tok)

\* the matchers of the root read signal tokens
RECURSIVE ReadsSignals(_)
ReadsSignals(o) ==
    CASE o.k = "signalMatcher" -> TRUE
      [] o.k \in {"stringMatcher", "binder", "referencer"} -> FALSE
      [] o.k \in {"not", "next", "eventually", "globally"} -> ReadsSignals(o.Child)
      [] OTHER -> ReadsSignals(o.Left)

\* a driver feeds an expression the tokens its matchers are written for
StepFitting ==
    \/ ReadsSignals(root) /\ StepSignal
    \/ ~ReadsSignals(root) /\ StepRune

(***************************************************************************)
(* Reference runs: the results of feeding a token stream to an operator    *)
(* of its own, used to state what a composite operator must emit.          *)
(***************************************************************************)
\* the results of feeding toks to o, token by token, until o terminates
RunOf(o, toks, acc) ==
    IF o = Nil \/ toks = <<>> THEN acc
    ELSE LET r == OpMatch(o, Head(toks))
         IN  RunOf(r.op, Tail(toks), Append(acc, r))

Run(o, toks) == RunOf(o, toks, <<>>)

\* o terminated on token i of the run
TerminatedAt(run, i) == Len(run) = i /\ i > 0 /\ run[i].op = Nil

\* o consumed token i and returned a continuation
LiveAfter(run, i) == Len(run) >= i /\ i > 0 /\ run[i].op /= Nil

\* two Environments report the same matching status and error status
SameStatus(x, y) ==
    /\ IsErroring(x) = IsErroring(y)
    /\ Matching(x) = Matching(y)

\* two Environments report the same matching status, error status,
\* exported bindings and pending references
SameEnv(x, y) ==
    /\ IsErroring(x) = IsErroring(y)
    /\ Matching(x) = Matching(y)
    /\ Eq(Bindings(x), Bindings(y))
    /\ hasReferences(x) = hasReferences(y)

(***************************************************************************)
(* Operands of the expressions that are checked.                           *)
(***************************************************************************)
\* [1], [2], [12], [$a<-], [$a]
Leaves ==
    { stringMatcher(<<"1">>, FALSE), stringMatcher(<<"2">>, FALSE),
      stringMatcher(<<"1", "2">>, FALSE),
      Bind("a", FALSE), Reference("a", FALSE) }

\* the leaves, with one that captures its tokens and one wildcard
LeavesPlus ==
    Leaves \cup { stringMatcher(<<"1">>, TRUE), stringMatcher(<<".", "2">>, FALSE) }

\* operands one operator deep
Operands ==
    LeavesPlus
    \cup { Not(x) : x \in Leaves }
    \cup { Next_(x) : x \in Leaves }
    \cup { Or(x, y) : x, y \in Leaves }
    \cup { Then(x, y) : x, y \in Leaves }

(***************************************************************************)
(* AND                                                                     *)
(***************************************************************************)
InitAnd == InitWith({ And(a, b) : a, b \in Operands })

SpecAnd == InitAnd /\ [][StepRune]_vars

\* in the last step, a child of the AND root had terminated on an earlier
\* token i with environment E while the other was live after token i
AndSurvivor(i, done, other) ==
    /\ root.k = "and"
    /\ 0 < i /\ i < Len(trace)
    /\ TerminatedAt(Run(done, hist), i)
    /\ LiveAfter(Run(other, hist), i)
    /\ ~IsErroring(Run(done, hist)[i].env)
    /\ ~IsErroring(Run(other, hist)[i].env)

\* the environment E.and(e) for the last token, e being what the surviving
\* child emits for it
AndExpected(i, done, other) ==
    EnvAnd(Run(done, hist)[i].env, Run(other, hist)[Len(hist)].env)

\* C1: once one child of AND(a, b) has terminated with environment E and the
\* other goes on as s, the AND emits on every later token E.and(e), e being
\* the environment of s for that token.  The formula compares the least the
\* claim promises, the matching status and the error status of the two.
C1_AndSurvivorEnv ==
    \A i \in 1..MaxLen :
        /\ AndSurvivor(i, root.Left, root.Right) =>
              /\ Len(Run(root.Right, hist)) = Len(hist)
              /\ SameStatus(env, AndExpected(i, root.Left, root.Right))
        /\ AndSurvivor(i, root.Right, root.Left) =>
              /\ Len(Run(root.Left, hist)) = Len(hist)
              /\ SameStatus(env, AndExpected(i, root.Right, root.Left))

(***************************************************************************)
(* OR                                                                      *)
(***************************************************************************)
InitOr == InitWith({ Or(a, b) : a, b \in Operands })

SpecOr == InitOr /\ [][StepRune]_vars

\* a child of the OR root terminated on an earlier token i while the other
\* was live after token i, neither with an Error, and the OR has consumed a
\* later token
OrSurvivor(i, done, other) ==
    /\ root.k = "or"
    /\ 0 < i /\ i < Len(trace)
    /\ TerminatedAt(Run(done, hist), i)
    /\ LiveAfter(Run(other, hist), i)
    /\ ~IsErroring(Run(done, hist)[i].env)
    /\ ~IsErroring(Run(other, hist)[i].env)

\* the environment e.or(E) for the last token, e being what the surviving
\* child emits for it
OrExpected(i, done, other) ==
    EnvOr(Run(other, hist)[Len(hist)].env, Run(done, hist)[i].env)

\* what the claim promises for the last token when done terminated on token i
OrKeepsEnv(i, done, other) ==
    /\ Len(Run(other, hist)) = Len(hist)
    /\ SameStatus(env, OrExpected(i, done, other))
    /\ (/\ Matching(Run(done, hist)[i].env)
        /\ ~hasReferences(Run(done, hist)[i].env)) => Matching(env)

OrDevolved(i, other) ==
    /\ Len(Run(other, hist)) = Len(hist)
    /\ trace[i].op = Run(other, hist)[i].op
    /\ trace[Len(hist)] = Run(other, hist)[Len(hist)]

InitThen == InitWith({ Then(a, b) : a, b \in Operands })

SpecThen == InitThen /\ [][StepRune]_vars

\* the tokens consumed after token i
Rest(i) == SubSeq(hist, i + 1, Len(hist))

\* the runes of the tokens consumed
HistRunes == [j \in 1..Len(hist) |-> hist[j].r]

\* the left child of the THEN root has consumed the last token
ThenLeftPhase ==
    /\ root.k = "then"
    /\ Len(hist) > 0
    /\ Len(Run(root.Left, hist)) = Len(hist)

\* the left child of the THEN root terminated on token i, before the last
ThenRightPhase(i) ==
    /\ root.k = "then"
    /\ 0 < i /\ i < Len(hist)
    /\ TerminatedAt(Run(root.Left, hist), i)

\* the right child as it stood before the last token, fed the tokens after
\* token i on its own
RightBefore(i) ==
    IF Len(hist) = i + 1 THEN root.Right
    ELSE Run(root.Right, Rest(i))[Len(hist) - i - 1].op

\* the right child was fed every token after token i but the last and
\* has not terminated
RightLiveBefore(i) ==
    \/ Len(hist) = i + 1
    \/ LiveAfter(Run(root.Right, Rest(i)), Len(hist) - i - 1)

\* the THEN fed the last token to its right child: it emits finalEnvA.and(e)
\* and terminates exactly if the right child does
ThenFedRight(i, runB, same(_, _)) ==
    /\ Len(runB) = Len(hist) - i
    /\ same(env, EnvAnd(Run(root.Left, hist)[i].env, runB[Len(runB)].env))
    /\ (op = Nil) = (runB[Len(runB)].op = Nil)

\* while the left child is live the THEN is live, and on the token on which
\* the left child terminates the THEN emits NotMatching and goes on
ThenLeft ==
    ThenLeftPhase =>
        /\ op /= Nil
        /\ Run(root.Left, hist)[Len(hist)].op = Nil => env = NotMatching

\* [1] THEN [2] matches "12" and nothing else
ThenExample ==
    (/\ root = Then(stringMatcher(<<"1">>, FALSE), stringMatcher(<<"2">>, FALSE))
     /\ Len(hist) > 0)
        => (Matching(env) = (HistRunes = <<"1", "2">>))

InitFirstMatch ==
    InitWith({ Eventually(a) : a \in Operands }
             \cup { Until(a, b) : a, b \in LeavesPlus })

SpecFirstMatch == InitFirstMatch /\ [][StepRune]_vars

\* C4: EVENTUALLY(a) and UNTIL(a, b) return a null continuation on the first
\* token on which they emit a matching environment; and EVENTUALLY(a), for
\* which a new attempt starts with every token, returns a non-null
\* continuation on every token on which it emits a non-matching environment
\* that is not an Error.
C4_StopsAtFirstMatch ==
    (root.k \in {"eventually", "until"} /\ Len(hist) > 0) =>
        /\ Matching(env) => op = Nil
        /\ (root.k = "eventually" /\ ~Matching(env) /\ ~IsErroring(env))
              => op /= Nil

(***************************************************************************)
(* EVENTUALLY against its reference semantics                              *)
(***************************************************************************)
\* children that can match on their first token and can also stay live for
\* three
DeepOperands ==
    Operands \cup { Or(x, Then(y, z)) : x, y, z \in Leaves }

\* the operator o has a binder or a referencer among its matchers
RECURSIVE UsesNames(_)
UsesNames(o) ==
    CASE o.k \in {"binder", "referencer"} -> TRUE
      [] o.k \in {"not", "next"} -> UsesNames(o.Child)
      [] o.k \in {"or", "then", "and"} -> UsesNames(o.Left) \/ UsesNames(o.Right)
      [] OTHER -> FALSE

\* children built from string matchers only, as in the EVENTUALLY tests
PlainOperands == { o \in DeepOperands : ~UsesNames(o) }

InitEventually == InitWith({ Eventually(a) : a \in PlainOperands })

SpecEventually == InitEventually /\ [][StepRune]_vars

\* a fresh copy of a fed the tokens from token i on consumes the last token
\* and emits a matching environment for it
AttemptMatches(a, i) ==
    /\ Len(Run(a, Rest(i - 1))) = Len(hist) - i + 1
    /\ Matching(Run(a, Rest(i - 1))[Len(hist) - i + 1].env)

\* C5: while EVENTUALLY(a) has not terminated, the environment it emits for
\* the last token is matching exactly if some attempt, a fresh copy of a
\* started at one of the tokens consumed, is live at the last token and
\* emits a matching environment for it.
C5_EventuallyAttempts ==
    (root.k = "eventually" /\ Len(hist) > 0) =>
        (Matching(env) = (\E i \in 1..Len(hist) : AttemptMatches(root.Child, i)))

(***************************************************************************)
(* UNTIL, RELEASE and GLOBALLY over matchers of a single token             *)
(***************************************************************************)
\* single-token signal matchers: sm(), sm("p"), sm("q"), sm("!p"),
\* sm("p", "q")
SignalMatchers ==
    { signalMatcher(<<>>),
      signalMatcher([n \in {"p"} |-> TRUE]),
      signalMatcher([n \in {"q"} |-> TRUE]),
      signalMatcher([n \in {"p"} |-> FALSE]),
      signalMatcher([n \in {"p", "q"} |-> TRUE]) }

\* single-token string matchers: [1], [2], [.], and [1] and [.] capturing
\* their token
RuneMatchers ==
    { stringMatcher(<<"1">>, FALSE), stringMatcher(<<"2">>, FALSE),
      stringMatcher(<<".">>, FALSE), stringMatcher(<<"1">>, TRUE),
      stringMatcher(<<".">>, TRUE) }

\* the pairs (p, q) of matchers of one token, of the same kind of token
MatcherPairs ==
    (SignalMatchers \X SignalMatchers) \cup (RuneMatchers \X RuneMatchers)

\* the single-token matcher m matches the token tok
Holds(m, tok) == Matching(OpMatch(m, tok).env)

InitUntil == InitWith({ Until(pq[1], pq[2]) : pq \in MatcherPairs })

SpecUntil == InitUntil /\ [][StepFitting]_vars

\* UNTIL(p, q) emits a matching environment for the last token exactly if q
\* matches it and p matched every token before; it then terminates, so that
\* q matched none of the tokens before the last one it was fed
UntilVerdict ==
    /\ Matching(env) =
          (/\ Holds(root.Right, hist[Len(hist)])
           /\ \A i \in 1..(Len(hist) - 1) : Holds(root.Left, hist[i]))
    /\ Matching(env) => op = Nil
    /\ \A i \in 1..(Len(hist) - 1) : ~Holds(root.Right, hist[i])

\* C6: UNTIL(p, q) for matchers p, q of a single token emits a matching
\* environment at tk (and terminates) exactly if q matches tk, p matches
\* every earlier token and q matched none of them.  Hence q matching the
\* first token is a match, once p failed before q matched no later token
\* yields a match, and a stream that ends before q matches ends non-matching.
C6_Until == (root.k = "until" /\ Len(hist) > 0) => UntilVerdict

\* p matched two tokens that q did not match, and q matches the third
C6_Until_W ==
    /\ root.k = "until"
    /\ Len(hist) = 3
    /\ Holds(root.Left, hist[1]) /\ Holds(root.Left, hist[2])
    /\ ~Holds(root.Left, hist[3])
    /\ Matching(env) /\ op = Nil

InitRelease == InitWith({ Release(pq[1], pq[2]) : pq \in MatcherPairs })

SpecRelease == InitRelease /\ [][StepFitting]_vars

\* the tokens consumed that the matcher m matches
HeldAt(m) == { i \in 1..Len(hist) : Holds(m, hist[i]) }

\* the first token that p matches, or the last token consumed if p matched
\* none
ReleasePoint(p) ==
    IF HeldAt(p) = {} THEN Len(hist)
    ELSE CHOOSE i \in HeldAt(p) : \A j \in HeldAt(p) : i <= j

\* RELEASE(p, q) emits a matching environment exactly if q matches every
\* token up to and including the first that p matches (every token so far
\* if p matched none); if q fails on a token before p ever matched, it emits
\* a non-matching environment on that token and terminates; while p does
\* not hold and q holds it goes on matching
ReleaseVerdict ==
    /\ Matching(env) =
          (\A i \in 1..ReleasePoint(root.Left) : Holds(root.Right, hist[i]))
    /\ (/\ ~Holds(root.Right, hist[Len(hist)])
        /\ \A i \in 1..(Len(hist) - 1) : ~Holds(root.Left, hist[i]))
          => (~Matching(env) /\ op = Nil)
    /\ (\A i \in 1..Len(hist) :
            ~Holds(root.Left, hist[i]) /\ Holds(root.Right, hist[i]))
          => (Matching(env) /\ op /= Nil)

\* C7: RELEASE(p, q) for matchers p, q of a single token emits, while it has
\* not terminated, a matching environment exactly if q matches every token
\* up to and including the first that p matches; it terminates non-matching
\* when q fails before p ever matched, and keeps matching as long as q holds
\* if p never holds.
C7_Release == (root.k = "release" /\ Len(hist) > 0) => ReleaseVerdict

\* q held alone on the first token, p and q held on the second, and the
\* RELEASE is matching on a third token that q does not match
C7_Release_W ==
    /\ root.k = "release"
    /\ Len(hist) = 3
    /\ HeldAt(root.Left) = {2}
    /\ HeldAt(root.Right) = {1, 2}
    /\ Matching(env)

InitGlobally ==
    InitWith({ Globally(a) : a \in SignalMatchers \cup RuneMatchers })

SpecGlobally == InitGlobally /\ [][StepFitting]_vars

\* NOT(EVENTUALLY(NOT(a))) fed the tokens consumed
DualRun == Run(Not(Eventually(Not(root.Child))), hist)

\* C8: for every matcher a of a single token, GLOBALLY(a) and
\* NOT(EVENTUALLY(NOT(a))) fed the same tokens emit the same matching status
\* after every token and return a null continuation on the same token.
C8_GloballyDual ==
    (root.k = "globally" /\ Len(hist) > 0) =>
        /\ Len(DualRun) = Len(hist)
        /\ Matching(DualRun[Len(hist)].env) = Matching(env)
        /\ (DualRun[Len(hist)].op = Nil) = (op = Nil)

\* a held on the first token and failed on the second: both expressions
\* are non-matching and have terminated
C8_GloballyDual_W ==
    /\ root.k = "globally"
    /\ Len(hist) = 2
    /\ Holds(root.Child, hist[1])
    /\ ~Holds(root.Child, hist[2])
    /\ ~Matching(env) /\ op = Nil
    /\ DualRun[2].op = Nil

(***************************************************************************)
(* The Environment algebra over the Environments of binders and            *)
(* references.  env is the Environment built so far, hist the operations   *)
(* applied to it.                                                          *)
(***************************************************************************)
MaxOps == 2

\* the (name, rune) pairs bound and referenced: a with either rune, b with
\* the rune 1
NamedRunes == ({"a"} \X Runes) \cup {<<"b", "1">>}

\* the Environments that [$a<-], [$b<-], [$a] and [$b] emit for a token
NameEnvs ==
    { binderMatch(Bind(nr[1], FALSE), RuneToken(nr[2], 0)).env : nr \in NamedRunes }
    \cup { referencerMatch(Reference(nr[1], FALSE), RuneToken(nr[2], 0)).env :
              nr \in NamedRunes }

\* the Environments one and() or or() away from those
PairEnvs ==
    { EnvAnd(x, y) : x, y \in NameEnvs } \cup { EnvOr(x, y) : x, y \in NameEnvs }

\* the Bindings that applyBindings is handed: those of some Environment
SomeBindings == { Bindings(e) : e \in NameEnvs \cup PairEnvs }

InitEnv ==
    /\ root = Nil
    /\ op = Nil
    /\ env \in NameEnvs \cup PairEnvs
    /\ hist = <<>>
    /\ trace = <<>>

\* env becomes e after the operation named name
EnvStep(name, e) ==
    /\ root = Nil
    /\ Len(hist) < MaxOps
    /\ env' = e
    /\ hist' = Append(hist, name)
    /\ UNCHANGED <<root, op, trace>>

\* env.And(x) and x.And(env)
EnvAndStep ==
    \E x \in NameEnvs :
        \/ EnvStep("and", EnvAnd(env, x))
        \/ EnvStep("and", EnvAnd(x, env))

\* env.Or(x) and x.Or(env)
EnvOrStep ==
    \E x \in NameEnvs :
        \/ EnvStep("or", EnvOr(env, x))
        \/ EnvStep("or", EnvOr(x, env))

\* env.Not()
EnvNotStep == EnvStep("not", EnvNot(env))

\* applyBindings(b, env)
EnvApplyStep == \E b \in SomeBindings : EnvStep("applyBindings", applyBindings(b, env))

NextEnv == EnvAndStep \/ EnvOrStep \/ EnvNotStep \/ EnvApplyStep

SpecEnv == InitEnv /\ [][NextEnv]_vars

\* the Environment holds a pending reference: a BindingNode with references,
\* or a binaryNode with such a node below it
RECURSIVE HoldsReference(_)
HoldsReference(e) ==
    CASE e.k = "BindingNode" -> Length(e.referenced) > 0
      [] e.k = "binaryNode" -> HoldsReference(e.left) \/ HoldsReference(e.right)
      [] OTHER -> FALSE

\* C9: an Environment built from the Environments of binders and references
\* by and, or, not and applyBindings that still holds a pending reference
\* reports Matching() = false.
C9_ReferenceBlocks == HoldsReference(env) => ~Matching(env)

\* a binaryNode built by two operations, its matching field aside, would be
\* matching but for the reference pending below it
C9_ReferenceBlocks_W ==
    /\ Len(hist) = 2
    /\ env.k = "binaryNode"
    /\ HoldsReference(env)
    /\ \/ env.t = "orNode" /\ (Matching(env.left) \/ Matching(env.right))
       \/ env.t = "andNode" /\ Matching(env.left) /\ Matching(env.right)

(***************************************************************************)
(* Binding conflicts: AND, OR and THEN over operands that bind a name.     *)
(***************************************************************************)
\* the operator holds a binder
RECURSIVE HasBinder(_)
HasBinder(o) ==
    CASE o.k = "binder" -> TRUE
      [] o.k \in {"stringMatcher", "signalMatcher", "referencer"} -> FALSE
      [] o.k \in {"not", "next"} -> HasBinder(o.Child)
      [] OTHER -> HasBinder(o.Left) \/ HasBinder(o.Right)

\* the operands that bind the name a
BinderOperands == { o \in Operands : HasBinder(o) }

InitJoin ==
    InitWith({ And(a, b) : a, b \in BinderOperands }
             \cup { Or(a, b) : a, b \in BinderOperands }
             \cup { Then(a, b) : a, b \in BinderOperands })

SpecJoin == InitJoin /\ [][StepRune]_vars

\* the values an Environment exports for a name
BoundValues(e, name) ==
    { bv.value : bv \in { Bindings(e)[j] : j \in { j \in 1..Length(Bindings(e)) :
                                                    Bindings(e)[j].key = name } } }

\* how many times an Environment exports a name
TimesBound(e, name) ==
    Cardinality({ j \in 1..Length(Bindings(e)) : Bindings(e)[j].key = name })

\* l and r are matching Environments that both bind the name a
BothBind(l, r) ==
    /\ Matching(l) /\ Matching(r)
    /\ BoundValues(l, "a") /= {}
    /\ BoundValues(r, "a") /= {}

\* out, the join of l and r, is an Error exactly if l and r bind a to
\* different values, an Error is not matching, and otherwise out binds a
\* once, to the value of l and r
JoinRule(l, r, out) ==
    BothBind(l, r) =>
        /\ IsErroring(out) <=> BoundValues(l, "a") /= BoundValues(r, "a")
        /\ IsErroring(out) => ~Matching(out)
        /\ ~IsErroring(out) =>
              /\ TimesBound(out, "a") = 1
              /\ BoundValues(out, "a") = BoundValues(l, "a")

\* both children of the AND or OR root consumed the last token: the root
\* joins the two Environments they emit for it
JoinBoth ==
    /\ root.k \in {"and", "or"}
    /\ Len(hist) > 0
    /\ Len(Run(root.Left, hist)) = Len(hist)
    /\ Len(Run(root.Right, hist)) = Len(hist)

\* a child of the AND root terminated on token i and the other consumed the
\* last token: the root joins the Environment held with the one emitted
JoinHeldAnd(i, done, other) ==
    /\ AndSurvivor(i, done, other)
    /\ Len(Run(other, hist)) = Len(hist)

\* the left child of the THEN root terminated on token i and the right child
\* consumed the last token
JoinHeldThen(i) ==
    /\ ThenRightPhase(i)
    /\ Len(Run(root.Right, Rest(i))) = Len(hist) - i

\* [$a<-] THEN [$a<-] is an Error on "12" and matches "11" with a bound to "1"
JoinExample ==
    root = Then(Bind("a", FALSE), Bind("a", FALSE)) =>
        /\ HistRunes = <<"1", "2">> => IsErroring(env) /\ ~Matching(env)
        /\ HistRunes = <<"1", "1">> =>
              /\ ~IsErroring(env) /\ Matching(env)
              /\ Bindings(env) = <<String("a", "1")>>

\* C10: when AND, OR or THEN joins two matching Environments that bind the
\* same name, the result is an Error Environment, which is not matching,
\* exactly if the two values differ; if they are equal the result is no Error
\* and binds the name once.  [$a<-] THEN [$a<-] is an Error on "12" and
\* matches "11" with a bound to "1".
C10_BindingConflict ==
    /\ JoinBoth =>
          JoinRule(Run(root.Left, hist)[Len(hist)].env,
                   Run(root.Right, hist)[Len(hist)].env, env)
    /\ \A i \in 1..(Len(hist) - 1) :
          /\ JoinHeldAnd(i, root.Left, root.Right) =>
                JoinRule(Run(root.Left, hist)[i].env,
                         Run(root.Right, hist)[Len(hist)].env, env)
          /\ JoinHeldAnd(i, root.Right, root.Left) =>
                JoinRule(Run(root.Right, hist)[i].env,
                         Run(root.Left, hist)[Len(hist)].env, env)
          /\ JoinHeldThen(i) =>
                JoinRule(Run(root.Left, hist)[i].env,
                         Run(root.Right, Rest(i))[Len(hist) - i].env, env)
    /\ JoinExample

\* an OR root joined two matching Environments that bind a to different
\* values, and emitted an Error
C10_BindingConflict_W ==
    /\ JoinBoth
    /\ root.k = "or"
    /\ BothBind(Run(root.Left, hist)[Len(hist)].env,
                Run(root.Right, hist)[Len(hist)].env)
    /\ BoundValues(Run(root.Left, hist)[Len(hist)].env, "a")
          /= BoundValues(Run(root.Right, hist)[Len(hist)].env, "a")
    /\ IsErroring(env)

(***************************************************************************)
(* A binder followed by a reference to the same name.                      *)
(***************************************************************************)
\* the runes of the streams of signals_test.go: "121", "321", "12"
Runes3 == {"1", "2", "3"}

\* feed one of the three runes
StepRune3 == \E tok \in {RuneToken(r, Len(hist)) : r \in Runes3} : Step(tok)

\* the matchers put between the binder and the reference: [2], [.]
MidMatchers == { stringMatcher(<<"2">>, FALSE), stringMatcher(<<".">>, FALSE) }

\* expressions in which [$a<-] reads the first token and [$a] reads token
\* ref, with the matcher mid, if any, reading token midAt
BindRefCases ==
    LET B == Bind("a", FALSE)
        R == Reference("a", FALSE)
    IN  { [o |-> Then(B, R), ref |-> 2, mid |-> Nil, midAt |-> 0],
          [o |-> And(B, Next_(R)), ref |-> 2, mid |-> Nil, midAt |-> 0],
          [o |-> And(Next_(R), B), ref |-> 2, mid |-> Nil, midAt |-> 0],
          [o |-> And(B, R), ref |-> 1, mid |-> Nil, midAt |-> 0],
          [o |-> And(R, B), ref |-> 1, mid |-> Nil, midAt |-> 0] }
        \cup { [o |-> Then(B, Then(m, R)), ref |-> 3, mid |-> m, midAt |-> 2] :
                 m \in MidMatchers }
        \cup { [o |-> Then(Then(B, m), R), ref |-> 3, mid |-> m, midAt |-> 2] :
                 m \in MidMatchers }
        \cup { [o |-> Then(B, And(R, m)), ref |-> 2, mid |-> m, midAt |-> 2] :
                 m \in MidMatchers }

\* expressions in which [$a] reads token ref and nothing binds a
UnboundCases ==
    LET R == Reference("a", FALSE)
    IN  { [o |-> R, ref |-> 1],
          [o |-> Then(Bind("b", FALSE), R), ref |-> 2],
          [o |-> And(Bind("b", FALSE), R), ref |-> 1],
          [o |-> And(R, Bind("b", FALSE)), ref |-> 1] }
        \cup { [o |-> Then(m, R), ref |-> 2] : m \in MidMatchers }

InitBindRef ==
    InitWith({ c.o : c \in BindRefCases } \cup { c.o : c \in UnboundCases })

SpecBindRef == InitBindRef /\ [][StepRune3]_vars

\* the reference of case c has just read its token
AtReference(c) == root = c.o /\ Len(hist) = c.ref

\* the token the reference read yields the value the binder bound, and the
\* matcher between them matched its token
BindRefAgree(c) ==
    /\ hist[1].r = hist[c.ref].r
    /\ c.mid /= Nil => Holds(c.mid, hist[c.midAt])

\* [$a<-] THEN [2] THEN [$a] matches "121" with a = "1", not "321"
BindRefExample ==
    root = Then(Bind("a", FALSE),
                Then(stringMatcher(<<"2">>, FALSE), Reference("a", FALSE))) =>
        /\ HistRunes = <<"1", "2", "1">> =>
              Matching(env) /\ Bindings(env) = <<String("a", "1")>>
        /\ HistRunes = <<"3", "2", "1">> => ~Matching(env) /\ ~IsErroring(env)

\* C11: for a binder of a name followed, through THEN or AND, by a reference
\* to it, the joined Environment is matching, with the name bound, exactly if
\* the value of the reference's token equals the bound value; when they
\* differ it is not matching and no Error.  A reference to a name that is
\* never bound leaves the Environment not matching.
C11_BindThenReference ==
    /\ \A c \in BindRefCases :
          AtReference(c) =>
              /\ ~IsErroring(env)
              /\ Matching(env) <=> BindRefAgree(c)
              /\ Matching(env) => Bindings(env) = <<String("a", hist[1].r)>>
    /\ \A c \in UnboundCases :
          AtReference(c) => ~Matching(env) /\ ~IsErroring(env)
    /\ BindRefExample

\* the reference read another value than the one bound two tokens before
C11_BindThenReference_W ==
    /\ \E c \in BindRefCases :
          AtReference(c) /\ c.ref = 3 /\ hist[1].r /= hist[3].r
                         /\ Holds(c.mid, hist[2])
    /\ ~Matching(env)

(***************************************************************************)
(* Error Environments under and, or and not.                               *)
(***************************************************************************)
\* the Error Environments the engine makes: a binding conflict, a token no
\* value can be extracted from
ErrEnvs == { ErrEnv("conflict"), ErrEnv("failed to make Bindings") }

\* Environments of every type: States, BindingNodes, binaryNodes, Errors
AnyEnvs == { NotMatching, MatchingState } \cup NameEnvs \cup PairEnvs \cup ErrEnvs

InitAbsorb ==
    /\ root = Nil
    /\ op = Nil
    /\ env \in AnyEnvs
    /\ hist = <<>>
    /\ trace = <<>>

\* env becomes the result e of the operation named name on env and x
AbsorbStep(name, x, e) ==
    /\ root = Nil
    /\ hist = <<>>
    /\ env' = e
    /\ hist' = <<name>>
    /\ trace' = <<[e |-> env, x |-> x]>>
    /\ UNCHANGED <<root, op>>

\* x.And(env)
ErrAndEnv == \E x \in ErrEnvs : AbsorbStep("x.And(e)", x, EnvAnd(x, env))

\* env.And(x)
EnvAndErr == \E x \in ErrEnvs : AbsorbStep("e.And(x)", x, EnvAnd(env, x))

\* x.Or(env)
ErrOrEnv == \E x \in ErrEnvs : AbsorbStep("x.Or(e)", x, EnvOr(x, env))

\* env.Or(x)
EnvOrErr == \E x \in ErrEnvs : AbsorbStep("e.Or(x)", x, EnvOr(env, x))

\* x.Not()
ErrNot == \E x \in ErrEnvs : AbsorbStep("x.Not()", x, EnvNot(x))

NextAbsorb == ErrAndEnv \/ EnvAndErr \/ ErrOrEnv \/ EnvOrErr \/ ErrNot

SpecAbsorb == InitAbsorb /\ [][NextAbsorb]_vars

\* C12: for every Environment e, a State, a BindingNode, a binaryNode or an
\* Error, and every Error Environment x, each of x.and(e), e.and(x), x.or(e),
\* e.or(x) and x.not() is an Error Environment, Err() non-nil, that reports
\* Matching() = false.
C12_ErrorAbsorbs == hist /= <<>> => IsErroring(env) /\ ~Matching(env)

\* a matching binaryNode was the receiver of an And with an Error argument
C12_ErrorAbsorbs_W ==
    /\ hist = <<"e.And(x)">>
    /\ trace[1].e.k = "binaryNode"
    /\ Matching(trace[1].e)
    /\ env = trace[1].x

(***************************************************************************)
(* Reducible operators.                                                    *)
(***************************************************************************)
InitReducible ==
    InitWith(Operands
             \cup { And(x, y) : x, y \in LeavesPlus }
             \cup { Or(x, y) : x, y \in LeavesPlus }
             \cup { Then(x, y) : x, y \in LeavesPlus }
             \cup { Until(x, y) : x, y \in LeavesPlus })

SpecReducible == InitReducible /\ [][StepRune]_vars

\* the Environment holds no bindings, no references and no captures, in
\* itself or below it
RECURSIVE NoContent(_)
NoContent(e) ==
    CASE e.k = "BindingNode" ->
            Length(e.bound) = 0 /\ Length(e.referenced) = 0 /\ CapsReducible(e.caps)
      [] e.k = "binaryNode" ->
            Length(e.bound) = 0 /\ NoContent(e.left) /\ NoContent(e.right)
      [] OTHER -> TRUE

\* a binary operator with a binder child and a string matcher child
BinderBesideMatcher(o) ==
    /\ o.k \in {"and", "or", "then", "until"}
    /\ {o.Left.k, o.Right.k} = {"binder", "stringMatcher"}

\* C13: if Reducible() of an operator is true, every Environment that the
\* operator or a continuation of it emits has no bindings, no references and
\* no captures; an AND, OR, THEN or UNTIL of a binder and a string matcher
\* reports Reducible() = false.
C13_ReducibleContained ==
    /\ (Len(hist) > 0 /\ OpReducible(root)) => NoContent(env)
    /\ BinderBesideMatcher(root) => ~OpReducible(root)

(***************************************************************************)
(* Two matchers advanced from one root operator.                           *)
(***************************************************************************)
\* a limit.Match that counts down in its receiver
MatchReceiverCountsDown(o, tok) ==
    IF o.k = "limit" THEN [o EXCEPT !.n = Int64Dec(o.n)] ELSE o

\* the receiver of Match after the call: no Match method assigns to a field
\* of its receiver, each builds its continuation anew
MatchReceiver(o, tok) == o

\* a matcher that has not stepped yet holds the root operator itself
RootRef == [k |-> "rootRef"]

\* the matchers of stream()
Instances == {"A", "B"}

\* the root operators shared
SharedRoots ==
    LeavesPlus
    \cup { Limit(2, x) : x \in LeavesPlus }
    \cup { Eventually(x) : x \in Leaves }
    \cup { Globally(x) : x \in Leaves }
    \cup { Until(x, y) : x, y \in Leaves }

InitShared ==
    /\ root \in SharedRoots
    /\ op = [i \in Instances |-> RootRef]
    /\ env = [i \in Instances |-> Nil]
    /\ hist = [i \in Instances |-> <<>>]
    /\ trace = [root0 |-> root, A |-> <<>>, B |-> <<>>]

\* the operator that matcher i holds
Held(i) == IF op[i] = RootRef THEN root ELSE op[i]

\* newOp, env := op.Match(tok) in matcher i
StepInstance(i, tok) ==
    /\ Held(i) /= Nil
    /\ Len(hist[i]) < MaxLen
    /\ op' = [op EXCEPT ![i] = OpMatch(Held(i), tok).op]
    /\ env' = [env EXCEPT ![i] = OpMatch(Held(i), tok).env]
    /\ hist' = [hist EXCEPT ![i] = Append(hist[i], tok)]
    /\ trace' = [trace EXCEPT ![i] = Append(trace[i], OpMatch(Held(i), tok))]
    /\ root' = IF op[i] = RootRef THEN MatchReceiver(root, tok) ELSE root

\* either matcher takes the next step, on any rune
StepShared ==
    \E i \in Instances : \E r \in Runes : StepInstance(i, RuneToken(r, Len(hist[i])))

SpecShared == InitShared /\ [][StepShared]_vars

HeldEnvs ==
    { NotMatching, MatchingState,
      binderMatch(Bind("a", FALSE), RuneToken("1", 0)).env }

\* the counts of the LIMITs built
LimitCounts == {1, 2}

InitNilSafe == InitWith(Leaves \cup { Eventually(x) : x \in Leaves })

\* the step named kind leaves the continuation o and the Environment e
NilSafeStep(kind, o, e) ==
    /\ Len(hist) < MaxLen
    /\ op' = o
    /\ env' = e
    /\ hist' = Append(hist, kind)
    /\ trace' = Append(trace, [kind |-> kind, op |-> o, env |-> e])
    /\ UNCHANGED root

\* op, env = ltl.Match(op, tok)
MatchNilSafe ==
    \E tok \in RuneTokens :
        NilSafeStep("Match", Match(op, tok).op, Match(op, tok).env)

\* op = Not(op)
WrapNot == NilSafeStep("Not", Not(op), env)

\* op = Next(op)
WrapNext == NilSafeStep("Next", Next_(op), env)

\* op = Eventually(op)
WrapEventually == NilSafeStep("Eventually", Eventually(op), env)

\* op = Limit(n, op)
WrapLimit == \E n \in LimitCounts : NilSafeStep("Limit", Limit(n, op), env)

\* op = AndEnvironment(e, op)
WrapAndEnvironment ==
    \E e \in HeldEnvs : NilSafeStep("AndEnvironment", AndEnvironment(e, op), env)

\* op = OrEnvironment(e, op)
WrapOrEnvironment ==
    \E e \in HeldEnvs : NilSafeStep("OrEnvironment", OrEnvironment(e, op), env)

NextNilSafe ==
    \/ MatchNilSafe
    \/ WrapNot \/ WrapNext \/ WrapEventually \/ WrapLimit
    \/ WrapAndEnvironment \/ WrapOrEnvironment

SpecNilSafe == InitNilSafe /\ [][NextNilSafe]_vars

\* C15: once a step has returned a nil continuation, every further token fed
\* through the nil-safe Match yields a nil continuation and NotMatching, and
\* Not, Next, Eventually, Limit, AndEnvironment and OrEnvironment of a nil
\* child are nil.
C15_TerminationAbsorbs ==
    \A j \in 2..Len(trace) :
        trace[j - 1].op = Nil =>
            /\ trace[j].op = Nil
            /\ trace[j].kind = "Match" => trace[j].env = NotMatching

\* an operator terminated with a match, was wrapped in a LIMIT and was then
\* fed another token
C15_TerminationAbsorbs_W ==
    /\ Len(trace) = 3
    /\ trace[1].op = Nil /\ Matching(trace[1].env)
    /\ trace[2].kind = "Limit"
    /\ trace[3].kind = "Match"

(***************************************************************************)
(* LIMIT                                                                   *)
(***************************************************************************)
\* the largest count given to Limit, either side of zero
MaxCount == 3

\* the operands of the LIMITs checked
LimitOperands ==
    LeavesPlus \cup { Eventually(x) : x \in Leaves } \cup { Globally(x) : x \in Leaves }

\* LIMIT(5, [1] THEN EVENTUALLY [2]), as in TestOperators
LimitExample ==
    Limit(5, Then(stringMatcher(<<"1">>, FALSE),
                  Eventually(stringMatcher(<<"2">>, FALSE))))

InitLimit ==
    InitWith({ Limit(n, a) : n \in (-MaxCount)..MaxCount, a \in LimitOperands }
             \cup { LimitExample })

\* the tokens fed to a LIMIT: one more than its count, MaxLen for a LIMIT
\* that has none to count down
FeedLen(o) == IF o = Nil THEN MaxLen ELSE IF o.n < 0 THEN MaxLen ELSE o.n + 1

\* op, env = ltl.Match(op, tok)
StepLimit ==
    \E tok \in RuneTokens :
        /\ Len(hist) < FeedLen(root)
        /\ op' = Match(op, tok).op
        /\ env' = Match(op, tok).env
        /\ hist' = Append(hist, tok)
        /\ trace' = Append(trace, Match(op, tok))
        /\ UNCHANGED root

SpecLimit == InitLimit /\ [][StepLimit]_vars

\* the root was built with a count that is zero or negative
NonPositive == root = Nil \/ root.n <= 0

\* C16: LIMIT(n, a) with n <= 0 is the nil operator: it never steps a and,
\* fed through the nil-safe Match, emits NotMatching.
C16_LimitNonPositive ==
    NonPositive =>
        /\ root = Nil
        /\ Len(hist) > 0 => op = Nil /\ env = NotMatching

\* the root was built with a positive count
Positive == root /= Nil /\ root.n > 0

\* token j was fed to the child of the LIMIT root: it is among the first n
\* and the child had not terminated before it
ChildFed(j) == j <= root.n /\ j <= Len(Run(root.Child, hist))

\* LIMIT(5, [1] THEN EVENTUALLY [2]) matches "12" and "11112", not "11111"
LimitMatchesExample ==
    root = LimitExample =>
        /\ HistRunes = <<"1", "2">> => Matching(env)
        /\ HistRunes = <<"1", "1", "1", "1", "2">> => Matching(env)
        /\ HistRunes = <<"1", "1", "1", "1", "1">> => ~Matching(env)

\* C17: LIMIT(n, a) with n > 0 emits on each of the first n tokens exactly
\* the Environment that a's continuation emits, returns a nil continuation no
\* later than token n, earlier exactly if a terminates earlier, and yields
\* nil and NotMatching from then on.
C17_LimitWindow ==
    Positive =>
        /\ \A j \in 1..Len(trace) :
              /\ ChildFed(j) =>
                    /\ trace[j].env = Run(root.Child, hist)[j].env
                    /\ trace[j].op = Nil <=>
                          (j = root.n \/ Run(root.Child, hist)[j].op = Nil)
              /\ ~ChildFed(j) => trace[j] = [op |-> Nil, env |-> NotMatching]
              /\ j >= root.n => trace[j].op = Nil
        /\ LimitMatchesExample

\* a LIMIT(2, a) whose a was live after two tokens was fed a third
C17_LimitWindow_W ==
    /\ Positive /\ root.n = 2
    /\ Len(hist) = 3
    /\ Len(Run(root.Child, hist)) = 3
    /\ Matching(trace[2].env)
    /\ Matching(Run(root.Child, hist)[3].env)
    /\ env = NotMatching

(***************************************************************************)
(* pkg/bindings: New, Combine, Satisfy, Eq on Bindings made by New.        *)
(***************************************************************************)
\* the most arguments given to New for the receiver
MaxArgs == 3

\* the bound values given to New: strings, and the int 1 for a, its value
\* written as a numeral, which the type alone tells from the string "1"
ArgValues ==
    { String(k, v) : k \in {"a", "b", "c"}, v \in {"1", "2"} } \cup { BoundInt("a", "1") }

\* the arguments of New for the receiver
ReceiverArgs == UNION { [1..m -> ArgValues] : m \in 0..MaxArgs }

\* the arguments of New for the argument of Combine and Satisfy: none, one
\* or two bound values
ArgumentArgs ==
    {<<>>} \cup { <<v>> : v \in ArgValues } \cup { <<v, w>> : v, w \in ArgValues }

InitBindings ==
    /\ root \in [A : ReceiverArgs, B : ArgumentArgs]
    /\ op = Nil
    /\ env = Nil
    /\ hist = <<>>
    /\ trace = <<>>

\* a, err := New(root.A...); b, err := New(root.B...)
NewBoth ==
    /\ hist = <<>>
    /\ \E a \in New(root.A), b \in New(root.B) : env' = [A |-> a, B |-> b]
    /\ hist' = <<"New">>
    /\ UNCHANGED <<root, op, trace>>

\* a.Combine(b), of Bindings that New returned without error
DoCombine ==
    /\ hist = <<"New">>
    /\ ~env.A.err /\ ~env.B.err
    /\ trace' = <<Combine(env.A.b, env.B.b)>>
    /\ hist' = <<"New", "Combine">>
    /\ UNCHANGED <<root, op, env>>

\* a.Satisfy(b), of Bindings that New returned without error
DoSatisfy ==
    /\ hist = <<"New">>
    /\ ~env.A.err /\ ~env.B.err
    /\ trace' = <<Satisfy(env.A.b, env.B.b)>>
    /\ hist' = <<"New", "Satisfy">>
    /\ UNCHANGED <<root, op, env>>

NextBindings == NewBoth \/ DoCombine \/ DoSatisfy

SpecBindings == InitBindings /\ [][NextBindings]_vars

\* the bound values of a Bindings, as a set
Bound(b) == { b[i] : i \in 1..Length(b) }

\* some key is bound in both a and b, to values that differ or are of
\* different types
Disagree(a, b) ==
    \E x \in Bound(a), y \in Bound(b) :
        x.key = y.key /\ (x.type /= y.type \/ x.value /= y.value)

Without(a, b) == SelectSeq(a, LAMBDA bv : bv.key \notin Keys(b))

\* C19: Satisfy(A, B) returns ok = true exactly if every key of both A and B
\* is bound to the same value, of the same type, in both; when ok it returns
\* A without the keys that also occur in B, which need not be empty; when not
\* ok it returns the empty Bindings.
C19_Satisfy ==
    hist = <<"New", "Satisfy">> =>
        /\ trace[1].ok <=> ~Disagree(env.A.b, env.B.b)
        /\ trace[1].ok => trace[1].b = Without(env.A.b, env.B.b)
        /\ ~trace[1].ok => Length(trace[1].b) = 0

\* a receiver that binds a, b and c was satisfied by an argument that binds
\* b alone, and keeps a and c
C19_Satisfy_W ==
    /\ hist = <<"New", "Satisfy">>
    /\ Keys(env.A.b) = {"a", "b", "c"}
    /\ Keys(env.B.b) = {"b"}
    /\ trace[1].ok
    /\ Keys(trace[1].b) = {"a", "c"}

\* the keys of a Bindings are in strictly ascending order
Ascending(b) ==
    \A i \in 1..(Length(b) - 1) : KeyCompare(b[i].key, b[i + 1].key) < 0

\* the arguments args in the order p
Reordered(args, p) == [i \in 1..Len(args) |-> args[p[i]]]

\* any Bindings that New makes of the arguments args, in any order, is Eq
\* to b
EqInAnyOrder(b, args) ==
    \A p \in Permutations(1..Len(args)) :
        \A o \in New(Reordered(args, p)) : Eq(b, o.b) /\ Eq(o.b, b)

\* C20: New fails whenever two of its arguments share a key, even with equal
\* values; every Bindings that New, Combine or Satisfy returns without error
\* holds its bound values in strictly ascending key order, no key twice; Eq
\* does not depend on the order in which the values were given to New.
C20_KeyOrder ==
    /\ hist /= <<>> =>
          /\ KeyConflict(root.A) => env.A.err
          /\ KeyConflict(root.B) => env.B.err
          /\ ~env.A.err => Ascending(env.A.b) /\ EqInAnyOrder(env.A.b, root.A)
          /\ ~env.B.err => Ascending(env.B.b) /\ EqInAnyOrder(env.B.b, root.B)
    /\ (hist = <<"New", "Combine">> /\ ~trace[1].err) => Ascending(trace[1].b)
    /\ (hist = <<"New", "Satisfy">> /\ trace[1].ok) => Ascending(trace[1].b)

\* New was given three bound values in descending key order
C20_KeyOrder_W ==
    /\ hist = <<"New">>
    /\ Len(root.A) = 3
    /\ root.A[1].key = "c" /\ root.A[2].key = "b" /\ root.A[3].key = "a"
    /\ ~env.A.err
    /\ env.A.b /= root.A

(***************************************************************************)
(* pkg/captures: a Captures built by New, Capture, Union and Not.          *)
(***************************************************************************)
\* the tokens captured, as in TestCaptures
CapTokens == {"a", "b"}

\* the Captures a Union is given: nil, or New().Capture(m, tok)
UnionOperands ==
    { NoCaps } \cup { Capture(CapsNew, m, {tok}) : m \in BOOLEAN, tok \in CapTokens }

InitCaptures ==
    /\ root = Nil
    /\ op = Nil
    /\ env = CapsNew
    /\ hist = <<>>
    /\ trace = <<>>

\* env becomes c by the call named call
CapturesStep(call, c) ==
    /\ Len(hist) < MaxOps
    /\ env' = c
    /\ hist' = Append(hist, call)
    /\ UNCHANGED <<root, op, trace>>

\* c = captures.New()
DoCapsNew == CapturesStep(<<"New">>, CapsNew)

\* c.Capture(m, tok)
DoCapture ==
    \E m \in BOOLEAN, tok \in CapTokens :
        ~env.nil /\ CapturesStep(<<"Capture", m, tok>>, Capture(env, m, {tok}))

\* c = c.Union(oc)
DoUnion == \E oc \in UnionOperands : CapturesStep(<<"Union", oc>>, CapsUnion(env, oc))

\* c = c.Not()
DoCapsNot == CapturesStep(<<"Not">>, CapsNot(env))

NextCaptures == DoCapsNew \/ DoCapture \/ DoUnion \/ DoCapsNot

SpecCaptures == InitCaptures /\ [][NextCaptures]_vars

\* C21: in every Captures reached by a sequence of New, Capture, Union and
\* Not, no token is in both the matching set and the non-matching set.
C21_CapturesDisjoint == env.t \cap env.f = {}

(***************************************************************************)
(* Expressions built with capturing matchers and without.                  *)
(***************************************************************************)
\* the terminals that stringmatcher.Generator(Capture(true)) makes
CapLeaves ==
    { stringMatcher(<<"1">>, TRUE), stringMatcher(<<"2">>, TRUE),
      stringMatcher(<<"1", "2">>, TRUE),
      Bind("a", TRUE), Reference("a", TRUE) }

\* operands one operator deep over capturing terminals
CapOperands ==
    LET few == { stringMatcher(<<"1">>, TRUE), Bind("a", TRUE), Reference("a", TRUE) }
    IN  CapLeaves
        \cup { Not(x) : x \in CapLeaves }
        \cup { Next_(x) : x \in CapLeaves }
        \cup { Or(x, y) : x, y \in few }
        \cup { And(x, y) : x, y \in few }
        \cup { Then(x, y) : x, y \in few }

InitCapturing ==
    InitWith({ And(x, y) : x, y \in CapOperands }
             \cup { Or(x, y) : x, y \in CapOperands }
             \cup { Then(x, y) : x, y \in CapOperands }
             \cup { Until(x, y) : x, y \in CapOperands }
             \cup { Not(x) : x \in CapOperands }
             \cup { Eventually(x) : x \in CapOperands }
             \cup { Globally(x) : x \in CapOperands })

SpecCapturing == InitCapturing /\ [][StepRune]_vars

\* the expression o as the generator without capture builds it
RECURSIVE Uncaptured(_)
Uncaptured(o) ==
    CASE o.k \in {"stringMatcher", "binder", "referencer"} -> [o EXCEPT !.capture = FALSE]
      [] o.k \in {"not", "next", "eventually", "globally"} ->
            [o EXCEPT !.Child = Uncaptured(o.Child)]
      [] OTHER -> [o EXCEPT !.Left = Uncaptured(o.Left), !.Right = Uncaptured(o.Right)]

\* the results x and y of a step agree in all but the captures
SameButCaptures(x, y) ==
    /\ Matching(x.env) = Matching(y.env)
    /\ IsErroring(x.env) = IsErroring(y.env)
    /\ Eq(Bindings(x.env), Bindings(y.env))
    /\ (x.op = Nil) = (y.op = Nil)

\* the run of the root agrees, token by token, with the run plain
RunsAgree(plain) ==
    /\ Len(plain) = Len(trace)
    /\ \A j \in 1..Len(trace) : SameButCaptures(trace[j], plain[j])

\* C22: an expression built with capturing matchers and the same expression
\* built without capture yield, token by token, the same Matching(), the same
\* error status, the same exported bindings and a nil continuation on the
\* same tokens.
C22_CapturesObserveOnly == RunsAgree(Run(Uncaptured(root), hist))

(***************************************************************************)
(* De Morgan's laws over operators.                                        *)
(***************************************************************************)
\* literal matchers and binders
DeMorganLeaves ==
    { stringMatcher(<<"1">>, FALSE), stringMatcher(<<"2">>, FALSE),
      stringMatcher(<<"1", "2">>, FALSE), stringMatcher(<<".">>, FALSE),
      Bind("a", FALSE), Bind("b", FALSE) }

\* operands built from literal matchers, binders and THEN
DeMorganOperands ==
    DeMorganLeaves \cup { Then(x, y) : x, y \in DeMorganLeaves }

InitDeMorgan ==
    InitWith({ Or(a, b) : a, b \in DeMorganOperands }
             \cup { And(a, b) : a, b \in DeMorganOperands })

SpecDeMorgan == InitDeMorgan /\ [][StepRune]_vars

\* NOT (NOT a AND NOT b) for a OR b, NOT (NOT a OR NOT b) for a AND b
DeMorganDual(o) ==
    IF o.k = "or"
    THEN Not(And(Not(o.Left), Not(o.Right)))
    ELSE Not(Or(Not(o.Left), Not(o.Right)))

\* token by token, the run dual reports the matching status and the
\* exported bindings of the root's run
DualAgrees(dual) ==
    /\ Len(dual) = Len(trace)
    /\ \A j \in 1..Len(trace) :
          /\ Matching(trace[j].env) = Matching(dual[j].env)
          /\ Eq(Bindings(trace[j].env), Bindings(dual[j].env))

\* C23: for operands a and b built from literal matchers, binders and THEN,
\* a OR b and NOT (NOT a AND NOT b) report the same matching status and the
\* same exported bindings after every token, and so do a AND b and
\* NOT (NOT a OR NOT b).
C23_DeMorgan == DualAgrees(Run(DeMorganDual(root), hist))

(***************************************************************************)
(* THEN over OR and AND.                                                   *)
(***************************************************************************)
InitDistribute ==
    InitWith({ Then(a, Or(b, c)) : a, b, c \in Leaves }
             \cup { Then(a, And(b, c)) : a, b, c \in Leaves })

SpecDistribute == InitDistribute /\ [][StepRune]_vars

\* (a THEN b) OR (a THEN c) for a THEN (b OR c), and likewise for AND
Distributed(o) ==
    IF o.Right.k = "or"
    THEN Or(Then(o.Left, o.Right.Left), Then(o.Left, o.Right.Right))
    ELSE And(Then(o.Left, o.Right.Left), Then(o.Left, o.Right.Right))

\* C24: for leaves a, b and c, a THEN (b OR c) and (a THEN b) OR (a THEN c)
\* report the same matching status and the same exported bindings after
\* every token, and so do a THEN (b AND c) and (a THEN b) AND (a THEN c).
C24_ThenDistributes == DualAgrees(Run(Distributed(root), hist))

(***************************************************************************)
(* The parser: the grammar of parser.y as the LALR(1) parser that yacc     *)
(* generates from it, with its shift/reduce conflicts resolved by the      *)
(* declared precedences.  A token is a record whose field t is the token   *)
(* name; a MATCHER carries the Operator the lexer made and a NUM its       *)
(* value.  The stack holds tokens and the expr values already reduced.     *)
(***************************************************************************)
PrefixToks == {"NOT", "NEXT", "EVENTUALLY", "GLOBALLY"}

BinaryToks == {"OR", "AND", "UNTIL", "RELEASE", "THEN"}

\* the end of the input, for which Lex returns -1
EndTok == [t |-> "$end"]

\* a precedence table that reads the declarations from tightest to loosest
yyPrecTightestFirst(t) ==
    CASE t = "LIMIT" -> 7
      [] t = "GLOBALLY" -> 6
      [] t = "EVENTUALLY" -> 5
      [] t \in {"UNTIL", "RELEASE"} -> 4
      [] t \in {"THEN", "SEQUENCE"} -> 3
      [] t \in {"OR", "AND"} -> 2
      [] t \in {"NEXT", "NOT"} -> 1
      [] OTHER -> 0

\* the precedence level of a token: the number of its %nonassoc or %left
\* line, later lines binding tighter; 0 for a token that has none
yyPrec(t) ==
    CASE t = "LIMIT" -> 1
      [] t = "GLOBALLY" -> 2
      [] t = "EVENTUALLY" -> 3
      [] t \in {"UNTIL", "RELEASE"} -> 4
      [] t \in {"THEN", "SEQUENCE"} -> 5
      [] t \in {"OR", "AND"} -> 6
      [] t \in {"NEXT", "NOT"} -> 7
      [] OTHER -> 0

\* the associativity declared on the token's line
yyAssoc(t) ==
    IF t \in {"LIMIT", "GLOBALLY", "EVENTUALLY"} THEN "nonassoc" ELSE "left"

\* the resolution of the conflict between reducing a rule whose last
\* terminal is rule and shifting the lookahead tok
yyResolve(rule, tok) ==
    IF yyPrec(tok) = 0 \/ yyPrec(rule) > yyPrec(tok) THEN "reduce"
    ELSE IF yyPrec(rule) < yyPrec(tok) THEN "shift"
    ELSE IF yyAssoc(tok) = "left" THEN "reduce"
    ELSE "error"

\* the actions of the rules  NOT expr, NEXT expr, EVENTUALLY expr and
\* GLOBALLY expr
ReducePrefix(p, e) ==
    CASE p = "NOT" -> Not(e)
      [] p = "NEXT" -> Next_(e)
      [] p = "EVENTUALLY" -> Eventually(e)
      [] p = "GLOBALLY" -> Globally(e)

\* the actions of the rules  expr OR expr, ..., expr THEN expr
ReduceBinary(b, l, r) ==
    CASE b = "OR" -> Or(l, r)
      [] b = "AND" -> And(l, r)
      [] b = "UNTIL" -> Until(l, r)
      [] b = "RELEASE" -> Release(l, r)
      [] b = "THEN" -> Then(l, r)

StackTok(tok) == [s |-> "tok", tok |-> tok]

StackExpr(e) == [s |-> "expr", e |-> e]

IsTok(item, names) == item.s = "tok" /\ item.tok.t \in names

\* the stack without its n topmost items
Pop(st, n) == SubSeq(st, 1, Len(st) - n)

\* the shift of the lookahead: the tokens an expr may be followed by, the
\* tokens an expr may start with, and NUM after LIMIT; the end of the input
\* is accepted on a stack that holds one expr
yyShift(st, tok) ==
    LET n == Len(st)
        afterExpr == n > 0 /\ st[n].s = "expr"
        afterLimit == n > 0 /\ IsTok(st[n], {"LIMIT"})
        ok == IF afterExpr
              THEN \/ tok.t \in BinaryToks \cup {"LIMIT"}
                   \/ tok.t = "RPAREN" /\ n > 1 /\ IsTok(st[n - 1], {"LPAREN"})
              ELSE IF afterLimit THEN tok.t = "NUM"
              ELSE tok.t \in PrefixToks \cup {"MATCHER", "LPAREN"}
    IN  IF tok.t = "$end" /\ afterExpr /\ n = 1
        THEN [status |-> "accept", stack |-> st]
        ELSE IF ok THEN [status |-> "run", stack |-> Append(st, StackTok(tok))]
        ELSE [status |-> "error", stack |-> st]

\* what the parser does with the lookahead tok: the reductions that are due
\* and then the shift
RECURSIVE yyFeed(_, _)
yyFeed(st, tok) ==
    LET n == Len(st)
    IN  IF n >= 1 /\ IsTok(st[n], {"MATCHER"})
        THEN yyFeed(Append(Pop(st, 1), StackExpr(st[n].tok.op)), tok)
        ELSE IF n >= 3 /\ IsTok(st[n], {"RPAREN"})
        THEN yyFeed(Append(Pop(st, 3), st[n - 1]), tok)
        ELSE IF n >= 3 /\ IsTok(st[n], {"NUM"})
        THEN yyFeed(Append(Pop(st, 3),
                           StackExpr(Limit(st[n].tok.num, st[n - 2].e))), tok)
        ELSE IF n >= 2 /\ st[n].s = "expr" /\ IsTok(st[n - 1], PrefixToks)
        THEN CASE yyResolve(st[n - 1].tok.t, tok.t) = "reduce" ->
                    yyFeed(Append(Pop(st, 2),
                                  StackExpr(ReducePrefix(st[n - 1].tok.t, st[n].e))),
                           tok)
               [] yyResolve(st[n - 1].tok.t, tok.t) = "shift" -> yyShift(st, tok)
               [] OTHER -> [status |-> "error", stack |-> st]
        ELSE IF n >= 3 /\ st[n].s = "expr" /\ IsTok(st[n - 1], BinaryToks)
        THEN CASE yyResolve(st[n - 1].tok.t, tok.t) = "reduce" ->
                    yyFeed(Append(Pop(st, 3),
                                  StackExpr(ReduceBinary(st[n - 1].tok.t,
                                                         st[n - 2].e, st[n].e))),
                           tok)
               [] yyResolve(st[n - 1].tok.t, tok.t) = "shift" -> yyShift(st, tok)
               [] OTHER -> [status |-> "error", stack |-> st]
        ELSE yyShift(st, tok)

\* the tokens Lex returns for [name], for a number and for a keyword
MatcherTok(name) == [t |-> "MATCHER", op |-> stringMatcher(<<name>>, FALSE)]

NumTok(n) == [t |-> "NUM", num |-> n]

KeyTok(t) == [t |-> t]

MaxToks == 5

\* the names of the matchers of a sentence, in the order they occur
Letters == <<"a", "b", "c", "d">>

\* the tokens that can follow the sentence s in a sentence of the grammar
\* without parentheses
NextToks(s) ==
    LET last == IF s = <<>> THEN "" ELSE s[Len(s)].t
        k == Cardinality({ i \in 1..Len(s) : s[i].t = "MATCHER" })
    IN  IF last \in {"MATCHER", "NUM"}
        THEN { KeyTok(t) : t \in BinaryToks \cup {"LIMIT"} }
        ELSE IF last = "LIMIT" THEN { NumTok(3) }
        ELSE { KeyTok(t) : t \in PrefixToks } \cup { MatcherTok(Letters[k + 1]) }

\* the sentences of at most n tokens, the unfinished ones included
RECURSIVE Sentences(_)
Sentences(n) ==
    IF n = 0 THEN { <<>> }
    ELSE Sentences(n - 1)
         \cup UNION { { Append(s, t) : t \in NextToks(s) } :
                      s \in { x \in Sentences(n - 1) : Len(x) = n - 1 } }

\* inputs with parentheses, and inputs that are no sentence
OtherInputs ==
    LET a == MatcherTok("a")
        b == MatcherTok("b")
        c == MatcherTok("c")
        lp == KeyTok("LPAREN")
        rp == KeyTok("RPAREN")
    IN  { <<lp, a, rp>>,
          <<lp, KeyTok("EVENTUALLY"), a, rp, KeyTok("LIMIT"), NumTok(3)>>,
          <<a, KeyTok("THEN"), lp, b, KeyTok("UNTIL"), c, rp>>,
          <<lp, a, KeyTok("UNTIL"), b, rp, KeyTok("THEN"), c>>,
          <<lp, a>>, <<a, rp>>, <<a, b>>, <<a, KeyTok("SEQUENCE"), b>>,
          <<a, KeyTok("LIMIT"), b>>, <<NumTok(3)>> }

\* yyParserImpl.Parse has read nothing, and the Lexer holds no Operator
InitParser ==
    /\ root \in Sentences(MaxToks) \cup OtherInputs
    /\ op = [status |-> "run", stack |-> <<>>]
    /\ env = Nil
    /\ hist = <<>>
    /\ trace = <<>>

\* one round of yyParserImpl.Parse: it reads the next token, reduces what is
\* due and shifts the token; on the end of the input the rule  line : expr
\* hands the Operator to the Lexer with setOp
yyParseStep ==
    /\ op.status = "run"
    /\ LET tok == IF Len(hist) < Len(root) THEN root[Len(hist) + 1] ELSE EndTok
       IN  /\ op' = yyFeed(op.stack, tok)
           /\ hist' = Append(hist, tok)
           /\ env' = IF op'.status = "accept" THEN op'.stack[1].e ELSE env
    /\ UNCHANGED <<root, trace>>

SpecParser == InitParser /\ [][yyParseStep]_vars

\* ParseLTL has returned
Parsed == op.status /= "run"

(***************************************************************************)
(* What an order of precedence says a sentence parses to: the reading of   *)
(* the sentence by precedence climbing, lv giving each operator's level    *)
(* (the higher the tighter) and operators of one level associating to the  *)
(* left.                                                                   *)
(***************************************************************************)
NoReading == [ok |-> FALSE, e |-> Nil, rest |-> <<>>]

RECURSIVE ClimbExpr(_, _, _)
RECURSIVE ClimbLoop(_, _, _, _)
\* r is the reading of a right operand: go on with the operand built from it
ClimbBinary(b, lhs, r, min, lv) ==
    IF r.ok THEN ClimbLoop(ReduceBinary(b, lhs, r.e), r.rest, min, lv)
    ELSE NoReading

\* r is the reading of the operand of the prefix operator p
ClimbPrefix(p, r, min, lv) ==
    IF r.ok THEN ClimbLoop(ReducePrefix(p, r.e), r.rest, min, lv)
    ELSE NoReading

\* r is the reading of an expression in parentheses
ClimbParen(r, min, lv) ==
    IF r.ok /\ r.rest /= <<>> /\ Head(r.rest).t = "RPAREN"
    THEN ClimbLoop(r.e, Tail(r.rest), min, lv)
    ELSE NoReading

\* lhs has been read: the operators that follow it and bind tighter than min
ClimbLoop(lhs, toks, min, lv) ==
    IF toks = <<>> THEN [ok |-> TRUE, e |-> lhs, rest |-> toks]
    ELSE IF Head(toks).t \in BinaryToks /\ lv[Head(toks).t] > min
    THEN ClimbBinary(Head(toks).t, lhs,
                     ClimbExpr(Tail(toks), lv[Head(toks).t], lv), min, lv)
    ELSE IF Head(toks).t = "LIMIT" /\ lv["LIMIT"] > min
    THEN IF Len(toks) > 1 /\ toks[2].t = "NUM"
         THEN ClimbLoop(Limit(toks[2].num, lhs), Tail(Tail(toks)), min, lv)
         ELSE NoReading
    ELSE [ok |-> TRUE, e |-> lhs, rest |-> toks]

\* the longest expression toks starts with whose operators bind tighter
\* than min
ClimbExpr(toks, min, lv) ==
    IF toks = <<>> THEN NoReading
    ELSE IF Head(toks).t = "MATCHER"
    THEN ClimbLoop(Head(toks).op, Tail(toks), min, lv)
    ELSE IF Head(toks).t \in PrefixToks
    THEN ClimbPrefix(Head(toks).t,
                     ClimbExpr(Tail(toks), lv[Head(toks).t], lv), min, lv)
    ELSE IF Head(toks).t = "LPAREN"
    THEN ClimbParen(ClimbExpr(Tail(toks), 0, lv), min, lv)
    ELSE NoReading

\* the Operator the sentence reads as, nil when it has no reading
Whole(r) == IF r.ok /\ r.rest = <<>> THEN r.e ELSE Nil

Reading(toks, lv) == Whole(ClimbExpr(toks, 0, lv))

\* NOT/NEXT tightest, then AND/OR, THEN, UNTIL/RELEASE, EVENTUALLY/GLOBALLY,
\* and LIMIT loosest
TestedLevels ==
    [t \in PrefixToks \cup BinaryToks \cup {"LIMIT"} |->
        CASE t \in {"NOT", "NEXT"} -> 6
          [] t \in {"AND", "OR"} -> 5
          [] t = "THEN" -> 4
          [] t \in {"UNTIL", "RELEASE"} -> 3
          [] t \in {"EVENTUALLY", "GLOBALLY"} -> 2
          [] t = "LIMIT" -> 1]

\* LIMIT tightest, then GLOBALLY/EVENTUALLY, UNTIL/RELEASE, THEN, OR/AND,
\* and NEXT/NOT loosest
ListedLevels ==
    [t \in PrefixToks \cup BinaryToks \cup {"LIMIT"} |->
        CASE t = "LIMIT" -> 6
          [] t \in {"EVENTUALLY", "GLOBALLY"} -> 5
          [] t \in {"UNTIL", "RELEASE"} -> 4
          [] t = "THEN" -> 3
          [] t \in {"AND", "OR"} -> 2
          [] t \in {"NOT", "NEXT"} -> 1]

\* the sentences the parser tests assert
TestedSentences ==
    LET a == MatcherTok("a")
        b == MatcherTok("b")
        c == MatcherTok("c")
    IN  { [in |-> <<KeyTok("EVENTUALLY"), a, KeyTok("THEN"), b>>,
           want |-> Eventually(Then(a.op, b.op))],
          [in |-> <<a, KeyTok("UNTIL"), b, KeyTok("THEN"), c>>,
           want |-> Until(a.op, Then(b.op, c.op))],
          [in |-> <<a, KeyTok("THEN"), b, KeyTok("UNTIL"), c>>,
           want |-> Until(Then(a.op, b.op), c.op)],
          [in |-> <<KeyTok("NOT"), a, KeyTok("AND"), b>>,
           want |-> And(Not(a.op), b.op)] }

\* C25: ParseLTL returns for every input the Operator it reads as when
\* prefix NOT/NEXT bind tightest, then AND/OR, then THEN, then UNTIL/RELEASE,
\* then prefix EVENTUALLY/GLOBALLY and postfix LIMIT loosest, the binary
\* operators of one level associating to the left, and no Operator when the
\* input has no reading; the four sentences of the parser tests parse as the
\* tests say.
C25_TestedPrecedence ==
    Parsed =>
        /\ env = Reading(root, TestedLevels)
        /\ \A s \in TestedSentences : root = s.in => env = s.want

\* [a] UNTIL [b] THEN [c] has been parsed, as UNTIL([a],THEN([b],[c]))
C25_TestedPrecedence_W ==
    /\ Parsed
    /\ root = <<MatcherTok("a"), KeyTok("UNTIL"), MatcherTok("b"),
                KeyTok("THEN"), MatcherTok("c")>>
    /\ env = Until(MatcherTok("a").op, Then(MatcherTok("b").op, MatcherTok("c").op))

\* EVENTUALLY [a] LIMIT 3
LimitSentence == <<KeyTok("EVENTUALLY"), MatcherTok("a"), KeyTok("LIMIT"), NumTok(3)>>

\* C26 as stated: ParseLTL returns for every input the Operator it reads as
\* when LIMIT binds tightest, then GLOBALLY/EVENTUALLY, then UNTIL/RELEASE,
\* then THEN, then OR/AND and NEXT/NOT loosest; EVENTUALLY [a] LIMIT 3
\* parses as EVENTUALLY(LIMIT(3)([a])).
C26_ListedPrecedence ==
    Parsed =>
        /\ env = Reading(root, ListedLevels)
        /\ root = LimitSentence => env = Eventually(Limit(3, MatcherTok("a").op))

\* the input is  p [a] LIMIT 3  for a prefix operator p
PrefixThenLimit(p) ==
    root = <<KeyTok(p), MatcherTok("a"), KeyTok("LIMIT"), NumTok(3)>>

\* the input is  [a] x [b] y [c]  for the binary operators x and y
TwoBinaries(x, y) ==
    root = <<MatcherTok("a"), KeyTok(x), MatcherTok("b"), KeyTok(y), MatcherTok("c")>>

\* C26, amended: the list of the specification runs from loosest to
\* tightest.  A postfix LIMIT binds looser than a prefix operator, so
\* p [a] LIMIT 3 parses as LIMIT(3)(p([a])), and THEN binds tighter than
\* UNTIL and RELEASE on either side of them.
C26_ListedLoosestFirst ==
    Parsed =>
        /\ \A p \in PrefixToks :
              PrefixThenLimit(p) =>
                  env = Limit(3, ReducePrefix(p, MatcherTok("a").op))
        /\ \A u \in {"UNTIL", "RELEASE"} :
              /\ TwoBinaries(u, "THEN") =>
                    env = ReduceBinary(u, MatcherTok("a").op,
                                       Then(MatcherTok("b").op, MatcherTok("c").op))
              /\ TwoBinaries("THEN", u) =>
                    env = ReduceBinary(u, Then(MatcherTok("a").op, MatcherTok("b").op),
                                       MatcherTok("c").op)

\* EVENTUALLY [a] LIMIT 3 has been parsed, as LIMIT(3)(EVENTUALLY([a]))
C26_ListedLoosestFirst_W ==
    /\ Parsed
    /\ root = LimitSentence
    /\ env = Limit(3, Eventually(MatcherTok("a").op))

(***************************************************************************)
(* The lexer.  The input is a sequence of one-byte runes; the Lexer is a   *)
(* record of the reader's position pos (the bytes consumed), the offset    *)
(* the Lexer counts, its error and the node of the prefix tree it stands   *)
(* on, a node being the prefix that leads to it.                           *)
(***************************************************************************)
\* DefaultTokens
DefaultTokens ==
    { [str |-> <<"A", "N", "D">>, value |-> "AND"],
      [str |-> <<"L", "I", "M", "I", "T">>, value |-> "LIMIT"],
      [str |-> <<"E", "V", "E", "N", "T", "U", "A", "L", "L", "Y">>,
       value |-> "EVENTUALLY"],
      [str |-> <<"N", "E", "X", "T">>, value |-> "NEXT"],
      [str |-> <<"N", "O", "T">>, value |-> "NOT"],
      [str |-> <<"O", "R">>, value |-> "OR"],
      [str |-> <<"S", "E", "Q", "U", "E", "N", "C", "E">>, value |-> "SEQUENCE"],
      [str |-> <<"T", "H", "E", "N">>, value |-> "THEN"],
      [str |-> <<"U", "N", "T", "I", "L">>, value |-> "UNTIL"],
      [str |-> <<"R", "E", "L", "E", "A", "S", "E">>, value |-> "RELEASE"],
      [str |-> <<"G", "L", "O", "B", "A", "L", "L", "Y">>, value |-> "GLOBALLY"] }

\* the token a Lex that failed returns
ErrTok == [t |-> "yyErrCode"]

IsPrefixOf(x, y) == Len(x) <= Len(y) /\ SubSeq(y, 1, Len(x)) = x

\* (*prefixNode).advance: the child of the node for the rune r, or nil
advance(node, r) ==
    IF \E kw \in DefaultTokens : IsPrefixOf(Append(node.prefix, r), kw.str)
    THEN [prefix |-> Append(node.prefix, r)]
    ELSE Nil

\* the value buildPrefixTree gives the node
NodeValue(node) ==
    IF \E kw \in DefaultTokens : kw.str = node.prefix
    THEN KeyTok((CHOOSE kw \in DefaultTokens : kw.str = node.prefix).value)
    ELSE ErrTok

\* the root of the prefix tree
rootPrefixTree == [prefix |-> <<>>]

\* NewLexer
NewLexer == [pos |-> 0, offset |-> 0, err |-> "", tree |-> rootPrefixTree]

\* l.r.ReadRune() followed by l.offset += c
ReadRune(in, l) ==
    IF l.pos < Len(in)
    THEN [eof |-> FALSE, r |-> in[l.pos + 1],
          l |-> [l EXCEPT !.pos = @ + 1, !.offset = @ + 1]]
    ELSE [eof |-> TRUE, r |-> "", l |-> l]

\* l.r.UnreadRune() after a rune was read: the offset stays
UnreadRune(l) == [l EXCEPT !.pos = @ - 1]

IsSpace(r) == r = " "

Digits == <<"0", "1", "2", "3", "4", "5", "6", "7", "8", "9">>

IsDigit(r) == \E i \in 1..10 : Digits[i] = r

\* strconv.ParseInt(num, 10, 64) of a run of digits well within int64
RECURSIVE ParseInt(_)
ParseInt(num) ==
    IF num = <<>> THEN 0
    ELSE 10 * ParseInt(SubSeq(num, 1, Len(num) - 1))
         + (CHOOSE i \in 1..10 : Digits[i] = num[Len(num)]) - 1

\* the string of a sequence of runes
RECURSIVE StringOf(_)
StringOf(seq) == IF seq = <<>> THEN "" ELSE Head(seq) \o StringOf(Tail(seq))

\* strings.TrimSpace
RECURSIVE TrimSpace(_)
TrimSpace(seq) ==
    IF seq = <<>> THEN seq
    ELSE IF IsSpace(Head(seq)) THEN TrimSpace(Tail(seq))
    ELSE IF IsSpace(seq[Len(seq)]) THEN TrimSpace(SubSeq(seq, 1, Len(seq) - 1))
    ELSE seq

HasSuffixArrow(seq) ==
    Len(seq) >= 2 /\ seq[Len(seq) - 1] = "<" /\ seq[Len(seq)] = "-"

\* the function stringmatcher.Generator() returns: a binder for $name<-, a
\* reference for $name and a string matcher otherwise
Generator(str) ==
    IF str /= <<>> /\ Head(str) = "$"
    THEN IF HasSuffixArrow(Tail(str))
         THEN LET name == TrimSpace(SubSeq(str, 2, Len(str) - 2))
              IN  IF name = <<>> THEN [err |-> TRUE, op |-> Nil]
                  ELSE [err |-> FALSE, op |-> Bind(StringOf(name), FALSE)]
         ELSE LET name == TrimSpace(Tail(str))
              IN  IF name = <<>> THEN [err |-> TRUE, op |-> Nil]
                  ELSE [err |-> FALSE, op |-> Reference(StringOf(name), FALSE)]
    ELSE [err |-> FALSE, op |-> stringMatcher(str, FALSE)]

\* what a call of Lex leaves: the Lexer, the token returned and the strings
\* handed to the matcher generator
LexResult(l, tok, handed) == [l |-> l, tok |-> tok, handed |-> handed]

\* Lex, case r == OpenBracket
RECURSIVE LexMatcher(_, _, _, _)
LexMatcher(in, l, matcherStr, bracketDepth) ==
    IF bracketDepth = 0
    THEN IF Generator(matcherStr).err
         THEN LexResult([l EXCEPT !.err = "failed to create matcher"], ErrTok,
                        <<matcherStr>>)
         ELSE LexResult(l, [t |-> "MATCHER", op |-> Generator(matcherStr).op],
                        <<matcherStr>>)
    ELSE LET rr == ReadRune(in, l)
         IN  IF rr.eof
             THEN LexResult([rr.l EXCEPT !.err = "unexpected EOF"], ErrTok, <<>>)
             ELSE IF rr.r = "[" THEN LexMatcher(in, rr.l, matcherStr, bracketDepth + 1)
             ELSE IF rr.r = "]" THEN LexMatcher(in, rr.l, matcherStr, bracketDepth - 1)
             ELSE LexMatcher(in, rr.l, Append(matcherStr, rr.r), bracketDepth)

\* Lex, case unicode.IsDigit(r), after its UnreadRune
RECURSIVE LexNum(_, _, _)
LexNum(in, l, num) ==
    LET rr == ReadRune(in, l)
    IN  IF rr.eof THEN LexResult(rr.l, NumTok(ParseInt(num)), <<>>)
        ELSE IF ~IsDigit(rr.r)
        THEN LexResult(UnreadRune(rr.l), NumTok(ParseInt(num)), <<>>)
        ELSE LexNum(in, rr.l, Append(num, rr.r))

\* Lex, default case, after its UnreadRune
RECURSIVE LexKeyword(_, _)
LexKeyword(in, l) ==
    LET rr == ReadRune(in, l)
    IN  IF rr.eof \/ IsSpace(rr.r)
        THEN LexResult([rr.l EXCEPT !.tree = rootPrefixTree], NodeValue(l.tree), <<>>)
        ELSE IF advance(l.tree, rr.r) = Nil
        THEN LexResult([rr.l EXCEPT !.err = "lexing error"], ErrTok, <<>>)
        ELSE LexKeyword(in, [rr.l EXCEPT !.tree = advance(l.tree, rr.r)])

\* (*Lexer).Lex
RECURSIVE Lex(_, _)
Lex(in, l) ==
    LET rr == ReadRune(in, l)
    IN  IF rr.eof THEN LexResult(rr.l, EndTok, <<>>)
        ELSE IF IsSpace(rr.r) THEN Lex(in, rr.l)
        ELSE IF rr.r = "(" THEN LexResult(rr.l, KeyTok("LPAREN"), <<>>)
        ELSE IF rr.r = ")" THEN LexResult(rr.l, KeyTok("RPAREN"), <<>>)
        ELSE IF rr.r = "[" THEN LexMatcher(in, rr.l, <<>>, 1)
        ELSE IF rr.r = "]"
        THEN LexResult([rr.l EXCEPT !.err = "unexpected ']'"], ErrTok, <<>>)
        ELSE IF IsDigit(rr.r) THEN LexNum(in, UnreadRune(rr.l), <<>>)
        ELSE LexKeyword(in, UnreadRune(rr.l))

\* (*Lexer).Error
LexerError(l) == [l EXCEPT !.err = "parse error"]

(***************************************************************************)
(* ParseLTL over a Lexer that reads a string.                              *)
(***************************************************************************)
MaxPieces == 3

\* the pieces the inputs are made of
Pieces ==
    { <<"[", "a", "]", " ">>, <<"[", "b", "]">>,
      <<"[", "a", "[", "b", "]", "]">>, <<"[", "a">>, <<"]">>, <<"[", "$", "]">>,
      <<"T", "H", "E", "N", " ">>, <<"N", "O", "T", " ">>,
      <<"L", "I", "M", "I", "T", " ">>,
      <<"W", "H", "E", "R", "E", "U", "P", "O", "N", " ">>,
      <<"3">>, <<"1", "2", " ">>, <<"(">>, <<")">> }

\* the strings of at most n pieces
RECURSIVE Inputs(_)
Inputs(n) ==
    IF n = 0 THEN { <<>> }
    ELSE Inputs(n - 1) \cup { x \o y : x \in Inputs(n - 1), y \in Pieces }

\* NewLexer over the input, before ParseLTL reads it
InitLexer ==
    /\ root \in Inputs(MaxPieces)
    /\ op = [l |-> NewLexer, status |-> "run", stack |-> <<>>]
    /\ env = Nil
    /\ hist = <<>>
    /\ trace = <<>>

\* the Lexer after the round of the parser that called Lex: a syntax error
\* is reported to it with Error
AfterRound(r, p) == IF p.status = "error" THEN LexerError(r.l) ELSE r.l

\* the round ends as p, Lex having returned r
RoundEnds(r, p) ==
    /\ op' = [l |-> AfterRound(r, p), status |-> p.status, stack |-> p.stack]
    /\ env' = IF p.status = "accept" THEN p.stack[1].e ELSE env
    /\ hist' = Append(hist, [tok |-> r.tok, from |-> op.l.pos, to |-> r.l.pos,
                             handed |-> r.handed])

\* one round of yyParserImpl.Parse: a call of Lex and what the parser does
\* with the token
LexStep ==
    /\ op.status = "run"
    /\ RoundEnds(Lex(root, op.l), yyFeed(op.stack, Lex(root, op.l).tok))
    /\ UNCHANGED <<root, trace>>

SpecLexer == InitLexer /\ [][LexStep]_vars

\* the place of the first rune after place i that is no white space, or 0
RECURSIVE FirstRune(_, _)
FirstRune(in, i) ==
    IF i >= Len(in) THEN 0
    ELSE IF IsSpace(in[i + 1]) THEN FirstRune(in, i + 1)
    ELSE i + 1

\* the place of the bracket that closes the one open at place i with depth
\* brackets open after it, or 0
RECURSIVE Closing(_, _, _)
Closing(in, i, depth) ==
    IF i >= Len(in) THEN 0
    ELSE IF in[i + 1] = "[" THEN Closing(in, i + 1, depth + 1)
    ELSE IF in[i + 1] = "]"
    THEN IF depth = 0 THEN i + 1 ELSE Closing(in, i + 1, depth - 1)
    ELSE Closing(in, i + 1, depth)

\* the call c of Lex met a matcher literal with balanced brackets, starting
\* at place first
BalancedLiteral(first) ==
    first > 0 /\ root[first] = "[" /\ Closing(root, first, 0) > 0

\* the call met a ] with no open bracket, or a [ that the input never closes
UnbalancedLiteral(first) ==
    /\ first > 0
    /\ \/ root[first] = "]"
       \/ root[first] = "[" /\ Closing(root, first, 0) = 0

\* C27: when Lex meets a matcher literal whose brackets are balanced, the
\* string it hands to the matcher generator is the text between the
\* outermost [ and its matching ], nested brackets included; when it meets
\* a ] with no open bracket, or the input ends inside an open [, the parse
\* fails with an error.
C27_MatcherLiteral ==
    \A j \in 1..Len(hist) :
        /\ BalancedLiteral(FirstRune(root, hist[j].from)) =>
              hist[j].handed =
                  << SubSeq(root, FirstRune(root, hist[j].from) + 1,
                            Closing(root, FirstRune(root, hist[j].from), 0) - 1) >>
        /\ UnbalancedLiteral(FirstRune(root, hist[j].from)) =>
              op.status = "error" /\ op.l.err /= "" /\ env = Nil

\* [a] THEN [b]
OffsetExample ==
    <<"[", "a", "]", " ", "T", "H", "E", "N", " ", "[", "b", "]">>

\* [a] WHEREUPON [b]
LexingErrorExample ==
    <<"[", "a", "]", " ", "W", "H", "E", "R", "E", "U", "P", "O", "N", " ",
      "[", "b", "]">>

\* C28: after every call of Lex the offset of the Lexer is the number of
\* bytes of the input consumed so far; after parsing [a] THEN [b] it is 12
\* and after the lexing error in [a] WHEREUPON [b] it is 5.
C28_LexerOffset ==
    /\ op.l.offset = op.l.pos
    /\ Parsed /\ root = OffsetExample => op.l.offset = 12
    /\ Parsed /\ root = LexingErrorExample => op.l.offset = 5

(***************************************************************************)
(* The short-circuit of an AndEnvironment.                                 *)
(***************************************************************************)
\* the AndEnvironment ae may hand its held Environment upward unstepped
MayShortCircuit(ae) ==
    Reducible(ae.env) /\ ~Matching(ae.env) /\ ReducibleOp(ae.Child)

\* ae has stepped its child, which returned r, and ANDed its result in
SteppedChild(ae, r, got) ==
    got = [op |-> AndEnvironment(ae.env, r.op), env |-> EnvAnd(ae.env, r.env)]

\* C29: an AndEnvironment holding heldEnv over child returns (nil, heldEnv)
\* without stepping child only when heldEnv is reducible and not matching
\* and child is reducible; in every other case it steps child and emits
\* heldEnv.and(e) with a continuation that still holds heldEnv.
C29_ShortCircuitPrecondition ==
    \A j \in 1..(Len(trace) - 1) :
        trace[j].op.k = "andEnvironment" /\ ~MayShortCircuit(trace[j].op) =>
            SteppedChild(trace[j].op, Match(trace[j].op.Child, hist[j + 1]),
                         trace[j + 1])

(***************************************************************************)
(* When an AND terminates.                                                 *)
(***************************************************************************)
\* the run has terminated on one of its first j tokens
TerminatedBy(run, j) == \E i \in 1..j : TerminatedAt(run, i)

\* no Environment of the run is an Error
NoError(run) == \A i \in 1..Len(run) : ~IsErroring(run[i].env)

\* C30: absent an Error environment, AND(a, b) returns a nil continuation
\* only on a token by which both a and b, fed the same tokens, have
\* terminated: it goes on for as long as one of its children does.
C30_AndTerminatesLast ==
    \A j \in 1..Len(trace) :
        /\ root.k = "and"
        /\ trace[j].op = Nil
        /\ NoError(trace)
        /\ NoError(Run(root.Left, hist))
        /\ NoError(Run(root.Right, hist))
        => /\ TerminatedBy(Run(root.Left, hist), j)
           /\ TerminatedBy(Run(root.Right, hist), j)

(***************************************************************************)
(* What a THEN emits while its left child runs.                            *)
(***************************************************************************)
\* token j is one the left child of the THEN root consumes, its last one
\* included
LeftConsumes(j) == root.k = "then" /\ j <= Len(Run(root.Left, hist))

\* C31: THEN(a, b) emits a non-matching Environment on every token up to
\* and including the token on which a terminates.
C31_ThenSilentInLeftPhase ==
    \A j \in 1..Len(trace) : LeftConsumes(j) => ~Matching(trace[j].env)

(***************************************************************************)
(* GLOBALLY over children of several tokens.                               *)
(***************************************************************************)
InitGloballyAny == InitWith({ Globally(a) : a \in Operands })

SpecGloballyAny == InitGloballyAny /\ [][StepRune]_vars

\* the attempt of the child that starts on token s, over the tokens consumed
AttemptFrom(s) == Run(root.Child, SubSeq(hist, s, Len(hist)))

\* the attempts from token s on end as C32 says: one that terminates without
\* matching ends the GLOBALLY with its Environment, one that terminates
\* matching leaves it live, and the next attempt starts on the next token
RECURSIVE AttemptsEndAsClaimed(_)
AttemptsEndAsClaimed(s) ==
    IF s > Len(hist) \/ AttemptFrom(s)[Len(AttemptFrom(s))].op /= Nil THEN TRUE
    ELSE /\ s + Len(AttemptFrom(s)) - 1 <= Len(trace)
         /\ IF Matching(AttemptFrom(s)[Len(AttemptFrom(s))].env)
            THEN /\ trace[s + Len(AttemptFrom(s)) - 1].op /= Nil
                 /\ AttemptsEndAsClaimed(s + Len(AttemptFrom(s)))
            ELSE /\ trace[s + Len(AttemptFrom(s)) - 1].op = Nil
                 /\ trace[s + Len(AttemptFrom(s)) - 1].env
                       = AttemptFrom(s)[Len(AttemptFrom(s))].env

\* C32: on the token at which an attempt of a terminates without matching,
\* GLOBALLY(a) returns a nil continuation and that non-matching
\* Environment; on a token at which an attempt terminates matching it stays
\* live and a fresh attempt of a starts on the next token.
C32_GloballyAttempts == root.k = "globally" => AttemptsEndAsClaimed(1)

(***************************************************************************)
(* Errors of children: streams that mix rune tokens with tokens of the     *)
(* wrong type for a rune terminal.                                         *)
(***************************************************************************)
ErrorRoots ==
    { Not(a) : a \in Leaves }
    \cup { Eventually(a) : a \in Leaves }
    \cup { Globally(a) : a \in Leaves }
    \cup { Limit(2, a) : a \in Leaves }
    \cup { And(a, b) : a, b \in Leaves }
    \cup { Or(a, b) : a, b \in Leaves }
    \cup { Then(a, b) : a, b \in Leaves }
    \cup { Until(a, b) : a, b \in Leaves }

InitErrors == InitWith(ErrorRoots)

NextErrors == StepRune \/ StepSignal

SpecErrors == InitErrors /\ [][NextErrors]_vars

\* the children to which the Match method of o hands its token
ChildrenFed(o) ==
    CASE o.k \in {"not", "eventually", "globally", "limit"} -> {o.Child}
      [] o.k \in {"and", "or", "until"} -> {o.Left, o.Right}
      [] o.k = "then" -> {o.Left}
      [] OTHER -> {}

\* a child of o terminates with an Error Environment on tok
ChildFails(o, tok) ==
    \E c \in ChildrenFed(o) :
        OpMatch(c, tok).op = Nil /\ IsErroring(OpMatch(c, tok).env)

\* the operator that consumes the j-th token
OpBefore(j) == IF j = 1 THEN root ELSE trace[j - 1].op

\* C33: when a child of a NOT, AND, OR, THEN, EVENTUALLY, UNTIL, GLOBALLY
\* or LIMIT terminates with an Error Environment on a token, the operator
\* emits an Error Environment for that token.
C33_ErrorsOnSameToken ==
    \A j \in 1..Len(trace) :
        ChildFails(OpBefore(j), hist[j]) => IsErroring(trace[j].env)

(***************************************************************************)
(* Joining Environments whose bound values conflict with the combined      *)
(* Bindings.                                                               *)
(***************************************************************************)
\* a BindingNode that is not matching and carries bound values, as the
\* negation of what a binder emits
NegatedBinder(e) ==
    e.k = "BindingNode" /\ ~e.matching /\ Length(e.bound) > 0
        /\ ~bnHasReferences(e)

\* and()/or() of l and r get as far as applying the combined Bindings, and
\* applying them to l or to r fails
ApplyFails(l, r, matching) ==
    /\ EitherErroring(l, r) = Nil
    /\ Reduce(l, r, matching) = Nil
    /\ ~Combine(Bindings(l), Bindings(r)).err
    /\ \/ IsErroring(applyBindings(Combine(Bindings(l), Bindings(r)).b, l))
       \/ IsErroring(applyBindings(Combine(Bindings(l), Bindings(r)).b, r))

\* C34: whenever applying the combined Bindings to an operand of and() or
\* or() fails, the result is an Error Environment; in particular the join of
\* a negated binder with a matching Environment that binds the same name to
\* another value is one.
C34_NegatedBindingsConflict ==
    \A x \in NameEnvs :
        /\ ApplyFails(env, x, TRUE) => IsErroring(and(env, x))
        /\ ApplyFails(x, env, TRUE) => IsErroring(and(x, env))
        /\ ApplyFails(env, x, FALSE) => IsErroring(or(env, x))
        /\ ApplyFails(x, env, FALSE) => IsErroring(or(x, env))

(***************************************************************************)
(* What an Environment that is not matching exports.                       *)
(***************************************************************************)
\* C35: an Environment the engine returns that is not Matching exports no
\* Bindings, whether it is a BindingNode or a binaryNode.
C35_OnlyMatchingExports ==
    \A j \in 1..Len(trace) :
        ~Matching(trace[j].env) => Length(Bindings(trace[j].env)) = 0

(***************************************************************************)
(* The rolled-up fields of a binaryNode.                                   *)
(***************************************************************************)
\* hasRefs of the node e says whether a child has references
HasRefsRolledUp(e) ==
    e.hasRefs = (hasReferences(e.left) \/ hasReferences(e.right))

\* matching of the node e is that of its children joined by its type, and
\* false while references are pending
MatchingRolledUp(e) ==
    e.matching =
        IF e.hasRefs THEN FALSE
        ELSE IF e.t = "andNode" THEN Matching(e.left) /\ Matching(e.right)
        ELSE Matching(e.left) \/ Matching(e.right)

\* bound of the node e is the combination of what its children export
BoundRolledUp(e) ==
    /\ ~Combine(Bindings(e.left), Bindings(e.right)).err
    /\ Eq(e.bound, Combine(Bindings(e.left), Bindings(e.right)).b)

\* no child of the node e is an Error Environment
NoErrorChild(e) == ~IsErroring(e.left) /\ ~IsErroring(e.right)

\* every binaryNode in the tree e is consistent with its children
RECURSIVE RolledUp(_)
RolledUp(e) ==
    e.k = "binaryNode" =>
        /\ HasRefsRolledUp(e)
        /\ MatchingRolledUp(e)
        /\ BoundRolledUp(e)
        /\ NoErrorChild(e)
        /\ RolledUp(e.left)
        /\ RolledUp(e.right)

\* C36: in every binaryNode built by and(), or(), applyBindings or merge,
\* hasRefs, matching and bound agree with the children, and no child is an
\* Error Environment.
C36_RolledUpFields == RolledUp(env)

(***************************************************************************)
(* Names bound and names referenced by one BindingNode.                    *)
(***************************************************************************)
\* every name of refs that nb binds, nb binds to the referenced value
Agreeing(refs, nb) ==
    \A i \in 1..Length(refs) : \A j \in 1..Length(nb) :
        refs[i].key = nb[j].key => refs[i] = nb[j]

\* no BindingNode of the tree e both binds and references a name
RECURSIVE KeysDisjoint(_)
KeysDisjoint(e) ==
    CASE e.k = "BindingNode" -> Keys(e.bound) \cap Keys(e.referenced) = {}
      [] e.k = "binaryNode" -> KeysDisjoint(e.left) /\ KeysDisjoint(e.right)
      [] OTHER -> TRUE

\* what applyBindings(b, bn) does to the references of the BindingNode bn:
\* those b agrees with are removed; if b disagrees with one, the matching
\* field is inverted and all references are dropped
ReferencesResolved(bn, b, r) ==
    IF Agreeing(bn.referenced, Combine(bn.bound, b).b)
    THEN /\ r.matching = bn.matching
         /\ Keys(r.referenced)
               = Keys(bn.referenced) \ Keys(Combine(bn.bound, b).b)
    ELSE /\ r.matching = ~bn.matching
         /\ Length(r.referenced) = 0

\* C37: no BindingNode reached by and, or, not, applyBindings and merge from
\* what binders and referencers emit has a name both bound and referenced,
\* and applying Bindings to a node with references removes the references
\* they agree with, or inverts the matching field and drops the references
\* when they disagree.
C37_BoundReferencedDisjoint ==
    /\ KeysDisjoint(env)
    /\ \A b \in SomeBindings :
          (/\ env.k = "BindingNode"
           /\ bnHasReferences(env)
           /\ Length(b) > 0
           /\ ~Combine(env.bound, b).err)
          => ReferencesResolved(env, b, applyBindings(b, env))

\* a node that both binds and references, left by applyBindings
C37_BoundReferencedDisjoint_W ==
    /\ env.k = "BindingNode"
    /\ Length(env.bound) > 0
    /\ Length(env.referenced) > 0
    /\ Len(hist) > 0
    /\ hist[Len(hist)] = "applyBindings"

(***************************************************************************)
(* NOT on a BindingNode.                                                   *)
(***************************************************************************)
\* ne is e with the matching field inverted and the two capture sets
\* swapped, and with the bound and referenced values of e
NegatedNode(e, ne) ==
    /\ ne.k = "BindingNode"
    /\ ne.matching = ~e.matching
    /\ ne.caps.t = e.caps.f
    /\ ne.caps.f = e.caps.t
    /\ ne.bound = e.bound
    /\ ne.referenced = e.referenced

\* what NOT x returns for a token on which x returns the BindingNode e
NotOfNode(e, ne) ==
    e.k = "BindingNode" => NegatedNode(e, ne) /\ EnvNot(ne) = e

\* a binder followed by the negation of a reference to the name it binds
BindThenNotReference(o) ==
    /\ o.k = "then"
    /\ o.Left.k = "binder"
    /\ o.Right.k = "not"
    /\ o.Right.Child.k = "referencer"
    /\ o.Right.Child.name = o.Left.name

MaxCalls == 4

\* the tokens of the map at address a
MapAt(h, a) == IF a = 0 THEN {} ELSE h.maps[a]

\* the two sets of the *Captures p, as Get(true) and Get(false) show them
ObjValue(h, p) ==
    IF p = 0 THEN NoCaps
    ELSE [nil |-> FALSE, t |-> MapAt(h, h.objs[p].t), f |-> MapAt(h, h.objs[p].f)]

\* captures.New: a struct with two nil maps; the new pointer is Len(objs)
heapNew(h) == [h EXCEPT !.objs = Append(@, [t |-> 0, f |-> 0])]

\* (*Captures).Capture on the struct at p: makes the map if it is nil and
\* adds the tokens to it
heapCapture(h, p, matching, toks) ==
    IF (IF matching THEN h.objs[p].t ELSE h.objs[p].f) = 0
    THEN [objs |-> [h.objs EXCEPT ![p] =
                       IF matching THEN [@ EXCEPT !.t = Len(h.maps) + 1]
                       ELSE [@ EXCEPT !.f = Len(h.maps) + 1]],
          maps |-> Append(h.maps, toks)]
    ELSE [h EXCEPT !.maps[IF matching THEN h.objs[p].t ELSE h.objs[p].f] =
                       @ \cup toks]

\* the loop of Union: Capture is called for every token of a map, so a map
\* without tokens leaves the entry of ret nil
heapCaptureAll(h, p, matching, toks) ==
    IF toks = {} THEN h ELSE heapCapture(h, p, matching, toks)

\* (*Captures).Union: the pointer returned and the heap after the call
heapUnion(h, c, oc) ==
    IF c = 0 THEN [p |-> oc, h |-> h]
    ELSE IF oc = 0 THEN [p |-> c, h |-> h]
    ELSE [p |-> Len(h.objs) + 1,
          h |-> heapCaptureAll(
                    heapCaptureAll(heapNew(h), Len(h.objs) + 1, TRUE,
                                   ObjValue(h, c).t \cup ObjValue(h, oc).t),
                    Len(h.objs) + 1, FALSE,
                    ObjValue(h, c).f \cup ObjValue(h, oc).f)]

\* (*Captures).Not: a new struct that is assigned the two maps of c, swapped
heapNot(h, c) ==
    IF c = 0 THEN [p |-> 0, h |-> h]
    ELSE [p |-> Len(h.objs) + 1,
          h |-> [h EXCEPT !.objs = Append(@, [t |-> h.objs[c].f, f |-> h.objs[c].t])]]

\* the caller holds a nil *Captures
InitHeap ==
    /\ root = Nil
    /\ op = Nil
    /\ env = [objs |-> <<>>, maps |-> <<>>]
    /\ hist = <<>>
    /\ trace = <<0>>

\* the call named call leaves the heap h and hands the caller the pointers ps
HeapStep(call, h, ps) ==
    /\ Len(hist) < MaxCalls
    /\ op' = call
    /\ env' = h
    /\ hist' = Append(hist, call.k)
    /\ trace' = trace \o ps
    /\ UNCHANGED root

\* c := captures.New()
DoHeapNew == HeapStep([k |-> "New"], heapNew(env), <<Len(env.objs) + 1>>)

\* c.Capture(m, tok), through the i-th pointer held
DoHeapCapture ==
    \E i \in 1..Len(trace), m \in BOOLEAN, tok \in CapTokens :
        /\ trace[i] /= 0
        /\ HeapStep([k |-> "Capture", through |-> i],
                    heapCapture(env, trace[i], m, {tok}), <<>>)

\* u := c.Union(oc)
DoHeapUnion ==
    \E i, j \in 1..Len(trace) :
        HeapStep([k |-> "Union"], heapUnion(env, trace[i], trace[j]).h,
                 <<heapUnion(env, trace[i], trace[j]).p>>)

\* n := c.Not()
DoHeapNot ==
    \E i \in 1..Len(trace) :
        HeapStep([k |-> "Not"], heapNot(env, trace[i]).h, <<heapNot(env, trace[i]).p>>)

NextHeap == DoHeapNew \/ DoHeapCapture \/ DoHeapUnion \/ DoHeapNot

SpecHeap == InitHeap /\ [][NextHeap]_vars

\* the call just made leaves the Captures behind the i-th pointer as it was
KeepsValue(i) == ObjValue(env', trace[i]) = ObjValue(env, trace[i])

\* C39: New, Union and Not change no Captures the caller holds, and a
\* Capture through a pointer changes no Captures the caller held before it
\* obtained that pointer: what was an operand of Union or Not keeps its two
\* sets when the result is extended.
C39_OperandsUnchanged ==
    [][\A i \in 1..Len(trace) :
          (op'.k = "Capture" /\ op'.through <= i) \/ KeepsValue(i)]_vars

(***************************************************************************)
(* a THEN b beside a AND NEXT b.                                           *)
(***************************************************************************)
\* o consumes one token and terminates
ConsumesOne(o) ==
    \/ o.k \in {"binder", "referencer"}
    \/ o.k = "stringMatcher" /\ Len(o.s) = 1
    \/ o.k = "not" /\ o.Child.k \in {"binder", "referencer"}
    \/ o.k = "not" /\ o.Child.k = "stringMatcher" /\ Len(o.Child.s) = 1

\* matchString("abc") THEN matchString("bc"), and the stream it is compared on
AbcThenBc ==
    Then(stringMatcher(<<"a", "b", "c">>, FALSE), stringMatcher(<<"b", "c">>, FALSE))

Abcbc == <<"a", "b", "c", "b", "c">>

InitThenNext ==
    InitWith({ Then(a, b) : a \in { x \in Operands : ConsumesOne(x) }, b \in Operands }
             \cup { AbcThenBc })

\* the next token of the stream abcbc
StepAbcbc ==
    /\ root = AbcThenBc
    /\ op /= Nil
    /\ Len(hist) < Len(Abcbc)
    /\ op' = OpMatch(op, RuneToken(Abcbc[Len(hist) + 1], Len(hist))).op
    /\ env' = OpMatch(op, RuneToken(Abcbc[Len(hist) + 1], Len(hist))).env
    /\ hist' = Append(hist, RuneToken(Abcbc[Len(hist) + 1], Len(hist)))
    /\ trace' = Append(trace, OpMatch(op, RuneToken(Abcbc[Len(hist) + 1], Len(hist))))
    /\ UNCHANGED root

NextThenNext ==
    \/ root /= AbcThenBc /\ StepRune
    \/ root /= AbcThenBc /\ StepSignal
    \/ StepAbcbc

SpecThenNext == InitThenNext /\ [][NextThenNext]_vars

\* a AND NEXT b for the operands of the THEN o
AndNext(o) == And(o.Left, Next_(o.Right))

\* the run other reports the matching status of the root after every token
\* and terminates on the token on which the root does
StatusAgrees(other) ==
    /\ Len(other) = Len(trace)
    /\ \A j \in 1..Len(trace) :
          /\ Matching(other[j].env) = Matching(trace[j].env)
          /\ (other[j].op = Nil) = (trace[j].op = Nil)

\* C40: when a consumes one token and terminates, a THEN b and a AND NEXT b
\* report the same matching status after every token and terminate on the
\* same token; on abcbc, "abc" THEN "bc" terminates matching on the fifth
\* token and "abc" AND NEXT "bc" terminates on the third.
C40_ThenVersusAndNext ==
    /\ (root.k = "then" /\ ConsumesOne(root.Left))
          => StatusAgrees(Run(AndNext(root), hist))
    /\ (root = AbcThenBc /\ Len(hist) = Len(Abcbc))
          => /\ op = Nil
             /\ Matching(env)
             /\ TerminatedAt(Run(AndNext(root), hist), 3)

====
